---- MODULE Spec2Model ----
(***************************************************************************)
(* A model of the binclude embedded filesystem (src/binclude.go).          *)
(*                                                                         *)
(* Strings and byte slices are sequences of byte values, so that           *)
(* strings.TrimPrefix, strings.HasSuffix, filepath.Dir and the byte-wise   *)
(* string order used by the sort package are computed, not assumed.        *)
(* A File handle returned by Open is the *BincludeFile stored in the map:  *)
(* the handle of an entry is identified with the entry's key.              *)
(*                                                                         *)
(* files is the table; held the handles callers got from Open.  The other  *)
(* variables are history: last is the call made last with its results,     *)
(* prev and orig the exported fields before that call and at start,        *)
(* roundTrip the contents before a Compress(Gzip) awaiting its Decompress, *)
(* dirSeen and goSeen the results of a run of ReadDir or GoString calls.   *)
(*                                                                         *)
(* Debug is the package variable of that name and host the files of the   *)
(* host filesystem, which CopyFile writes and Open reads when Debug is on. *)
(*                                                                         *)
(* session is the handle one holder got from Open with the position that  *)
(* holder left its cursor at; callers are two callers of ReadFile whose    *)
(* steps (Open, each Read of ioutil.ReadAll, Close) interleave.            *)
(*                                                                         *)
(* Spec has the calls on the table and its two passes; SpecIO has the      *)
(* reading calls with the cursor methods Read and Seek of the handles;     *)
(* SpecAll has every call of the package, CopyFile included; SpecPass      *)
(* starts the passes from tables that hold gzip data as raw bytes;         *)
(* SpecDebug switches Debug on and off; SpecSession follows one holder of  *)
(* a handle among other calls; SpecConcurrent interleaves two ReadFile.    *)
(***************************************************************************)
EXTENDS Integers, Sequences, FiniteSets, TLC

VARIABLES files, held, last, prev, orig, roundTrip, dirSeen, goSeen,
          Debug, host, session, callers, copying, passing

vars == <<files, held, last, prev, orig, roundTrip, dirSeen, goSeen, Debug, host,
          session, callers, copying, passing>>

\* what lies outside the table: the Debug switch and the host filesystem
outside == <<Debug, host>>

\* the code that uses the table stepwise: a holder of a handle and the
\* callers of ReadFile that run side by side
clients == <<session, callers, copying, passing>>

\* the calls that wait for the host between their steps: a CopyFile and a
\* Decompress with Debug on
pending == <<copying, passing>>

-----------------------------------------------------------------------------
(* Bounds of the model.                                                    *)

\* longest raw payload placed in the table by Init
MaxContentLen == 2
\* how many gzip layers Compress may stack on an entry before the model stops
MaxNest == 2
\* longest buffer a caller hands to BincludeFile.Read
MaxReadBuf == 2
\* how far past the end of its bytes the model lets Seek move a cursor
MaxSeekPast == 1

-----------------------------------------------------------------------------
(* Byte strings.                                                           *)

Min(a, b) == IF a < b THEN a ELSE b

\* Go's < on strings: byte-wise lexicographic order
StrLess(a, b) ==
    \E i \in 1..(Min(Len(a), Len(b)) + 1) :
        /\ \A j \in 1..(i - 1) : a[j] = b[j]
        /\ \/ i > Len(a) /\ i <= Len(b)
           \/ i <= Len(a) /\ i <= Len(b) /\ a[i] < b[i]

HasPrefix(s, prefix) ==
    Len(s) >= Len(prefix) /\ SubSeq(s, 1, Len(prefix)) = prefix

HasSuffix(s, suffix) ==
    Len(s) >= Len(suffix) /\ SubSeq(s, Len(s) - Len(suffix) + 1, Len(s)) = suffix

TrimPrefix(s, prefix) ==
    IF HasPrefix(s, prefix) THEN SubSeq(s, Len(prefix) + 1, Len(s)) ELSE s

\* "./"
DotSlash == <<46, 47>>
\* "."
DotStr == <<46>>
\* ".."
DotDotStr == <<46, 46>>
\* "/"
SlashStr == <<47>>

IsPathSeparator(c) == c = 47

\* the elements of a path between separators, empty elements included
RECURSIVE SplitFrom(_, _, _)
SplitFrom(p, i, cur) ==
    IF i > Len(p) THEN <<cur>>
    ELSE IF IsPathSeparator(p[i]) THEN <<cur>> \o SplitFrom(p, i + 1, <<>>)
    ELSE SplitFrom(p, i + 1, Append(cur, p[i]))

Split(p) == SplitFrom(p, 1, <<>>)

\* filepath.Clean's element pass: drop "" and ".", resolve ".." lexically
RECURSIVE CleanElems(_, _, _)
CleanElems(elems, out, rooted) ==
    IF elems = <<>> THEN out
    ELSE LET e == Head(elems)
             rest == Tail(elems)
         IN IF e = <<>> \/ e = DotStr THEN CleanElems(rest, out, rooted)
            ELSE IF e = DotDotStr
                 THEN IF out # <<>> /\ out[Len(out)] # DotDotStr
                      THEN CleanElems(rest, SubSeq(out, 1, Len(out) - 1), rooted)
                      ELSE IF rooted THEN CleanElems(rest, out, rooted)
                           ELSE CleanElems(rest, Append(out, e), rooted)
                 ELSE CleanElems(rest, Append(out, e), rooted)

RECURSIVE Join(_)
Join(elems) ==
    IF elems = <<>> THEN <<>>
    ELSE IF Len(elems) = 1 THEN elems[1]
    ELSE elems[1] \o SlashStr \o Join(Tail(elems))

\* filepath.Clean on a slash-separated host
Clean(p) ==
    IF p = <<>> THEN DotStr
    ELSE LET rooted == IsPathSeparator(p[1])
             body == Join(CleanElems(Split(p), <<>>, rooted))
             res == IF rooted THEN SlashStr \o body ELSE body
         IN IF res = <<>> THEN DotStr ELSE res

\* index of the last separator of p, 0 when there is none
LastSep(p) ==
    LET idx == {i \in 1..Len(p) : IsPathSeparator(p[i])}
    IN IF idx = {} THEN 0 ELSE CHOOSE i \in idx : \A j \in idx : j <= i

\* filepath.Dir: all but the last element of the path, cleaned
Dir(p) == Clean(SubSeq(p, 1, LastSep(p)))

\* filepath.Base of a clean relative path: its last element
Base(p) == SubSeq(p, LastSep(p) + 1, Len(p))

\* all orders in which a range over the set S can visit it
RECURSIVE Perms(_)
Perms(S) ==
    IF S = {} THEN {<<>>}
    ELSE UNION {{<<x>> \o p : p \in Perms(S \ {x})} : x \in S}

-----------------------------------------------------------------------------
(* Compression.                                                            *)

None == 0
Gzip == 1

\* Compression.GoString
CompressionGoString(c) ==
    IF c = None THEN "binclude.None"
    ELSE IF c = Gzip THEN "binclude.Gzip"
    ELSE "panic"

\* the extensions of compressExcl: .jpg .jpeg .gz .png .gif .zip
compressExcl ==
    << <<46, 106, 112, 103>>, <<46, 106, 112, 101, 103>>, <<46, 103, 122>>,
       <<46, 112, 110, 103>>, <<46, 103, 105, 102>>, <<46, 122, 105, 112>> >>

\* shouldCompress with the bug of comparing the whole name to the extension
shouldCompressWholeName(name) ==
    ~ \E i \in 1..Len(compressExcl) : name = compressExcl[i]

shouldCompress(name) ==
    ~ \E i \in 1..Len(compressExcl) : HasSuffix(name, compressExcl[i])

-----------------------------------------------------------------------------
(* gzip (RFC 1952) over deflate (RFC 1951), as compress/gzip writes and    *)
(* reads it.  A bit stream is a sequence of 0 and 1 in the order deflate   *)
(* packs them into bytes, lowest bit of a byte first.                      *)

\* v in n bits, lowest bit first: the extra bits and the fields of headers
BitsOf(v, n) == [i \in 1..n |-> (v \div 2^(i - 1)) % 2]

\* v in n bits, highest bit first: the Huffman codes
CodeOf(v, n) == [i \in 1..n |-> (v \div 2^(n - i)) % 2]

\* the number n bits of a bit stream spell from 0-based position pos on,
\* lowest bit first
RECURSIVE ValueOf(_, _, _)
ValueOf(bits, pos, n) ==
    IF n = 0 THEN 0 ELSE bits[pos + 1] + 2 * ValueOf(bits, pos + 1, n - 1)

\* zero bits up to the next byte boundary
PadToByte(bits) == bits \o [i \in 1..((8 - (Len(bits) % 8)) % 8) |-> 0]

\* the bytes of a bit stream whose length is a multiple of 8
PackBits(bits) == [k \in 1..(Len(bits) \div 8) |-> ValueOf(bits, 8 * (k - 1), 8)]

\* the bit stream of a byte string
UnpackBits(bytes) ==
    [i \in 1..(8 * Len(bytes)) |-> (bytes[(i - 1) \div 8 + 1] \div 2^((i - 1) % 8)) % 2]

\* bitwise exclusive or of two naturals
RECURSIVE Xor(_, _)
Xor(a, b) ==
    IF a = 0 THEN b
    ELSE IF b = 0 THEN a
    ELSE ((a + b) % 2) + 2 * Xor(a \div 2, b \div 2)

\* a 32-bit word is kept as its two 16-bit halves.  One step of the CRC-32
\* shift register with the IEEE polynomial 0xEDB88320
CrcShift(c) ==
    LET hi == c.hi \div 2
        lo == c.lo \div 2 + (c.hi % 2) * 32768
    IN IF c.lo % 2 = 1 THEN [hi |-> Xor(hi, 60856), lo |-> Xor(lo, 33568)]
       ELSE [hi |-> hi, lo |-> lo]

\* crc32.IEEETable
CrcTable ==
    [n \in 0..255 |->
        CrcShift(CrcShift(CrcShift(CrcShift(
        CrcShift(CrcShift(CrcShift(CrcShift([hi |-> 0, lo |-> n]))))))))]

\* crc32.Update for one byte, on the inverted register
CrcUpdate(c, b) ==
    LET t == CrcTable[Xor(c.lo % 256, b)]
    IN [hi |-> Xor(t.hi, c.hi \div 256),
        lo |-> Xor(t.lo, c.lo \div 256 + (c.hi % 256) * 256)]

\* crc32.Update over the bytes lo..hi of s, halving the range
RECURSIVE CrcOver(_, _, _, _)
CrcOver(c, s, lo, hi) ==
    IF lo > hi THEN c
    ELSE IF lo = hi THEN CrcUpdate(c, s[lo])
    ELSE CHOOSE r \in {CrcOver(left, s, (lo + hi) \div 2 + 1, hi) :
                          left \in {CrcOver(c, s, lo, (lo + hi) \div 2)}} : TRUE

\* crc32.ChecksumIEEE, as two halves
Crc32(s) ==
    LET c == CrcOver([hi |-> 65535, lo |-> 65535], s, 1, Len(s))
    IN [hi |-> Xor(c.hi, 65535), lo |-> Xor(c.lo, 65535)]

\* a 32-bit word in little-endian bytes
Le32(c) == <<c.lo % 256, c.lo \div 256, c.hi % 256, c.hi \div 256>>

\* the eight bytes gzip.Writer.Close writes after the deflate stream: CRC-32
\* and length of the raw bytes, both modulo 2^32
GzipTrailer(raw) ==
    Le32(Crc32(raw)) \o Le32([hi |-> (Len(raw) \div 65536) % 65536, lo |-> Len(raw) % 65536])

\* the ten bytes gzip.Writer writes first: ID1 ID2, CM = 8 (deflate), no
\* flags, no modification time, XFL = 0, OS = 255 (unknown)
GzipHeader == <<31, 139, 8, 0, 0, 0, 0, 0, 0, 255>>

\* RFC 1951 3.2.5: base and extra bits of the length codes 257..285 and of
\* the distance codes 0..29
LengthBase ==
    <<3, 4, 5, 6, 7, 8, 9, 10, 11, 13, 15, 17, 19, 23, 27, 31, 35, 43, 51, 59,
      67, 83, 99, 115, 131, 163, 195, 227, 258>>
LengthExtra ==
    <<0, 0, 0, 0, 0, 0, 0, 0, 1, 1, 1, 1, 2, 2, 2, 2, 3, 3, 3, 3,
      4, 4, 4, 4, 5, 5, 5, 5, 0>>
DistBase ==
    <<1, 2, 3, 4, 5, 7, 9, 13, 17, 25, 33, 49, 65, 97, 129, 193, 257, 385, 513,
      769, 1025, 1537, 2049, 3073, 4097, 6145, 8193, 12289, 16385, 24577>>
DistExtra ==
    <<0, 0, 0, 0, 1, 1, 2, 2, 3, 3, 4, 4, 5, 5, 6, 6, 7, 7, 8, 8,
      9, 9, 10, 10, 11, 11, 12, 12, 13, 13>>

\* the index of the last base that is not above v
CodeIndex(base, v) == CHOOSE i \in 1..Len(base) :
                         base[i] <= v /\ (i = Len(base) \/ base[i + 1] > v)

\* RFC 1951 3.2.6: bit lengths of the fixed literal/length code, symbol s
FixedLitLength(s) == IF s < 144 THEN 8 ELSE IF s < 256 THEN 9 ELSE IF s < 280 THEN 7 ELSE 8

\* the fixed Huffman code of literal/length symbol s
FixedLitCode(s) ==
    IF s < 144 THEN CodeOf(48 + s, 8)
    ELSE IF s < 256 THEN CodeOf(400 + (s - 144), 9)
    ELSE IF s < 280 THEN CodeOf(s - 256, 7)
    ELSE CodeOf(192 + (s - 280), 8)

\* the tokens of compress/flate: a literal byte or a match
Literal(b) == [lit |-> b, length |-> 0, dist |-> 0]
Match(length, dist) == [lit |-> -1, length |-> length, dist |-> dist]

\* constants of compress/flate; the level is DefaultCompression (6):
\* good 8, lazy 16, nice 128, chain 128, skipNever
minMatchLength == 4
maxMatchLength == 258
windowSize == 32768
lazy == 16
nice == 128
chain == 128
maxFlateBlockTokens == 16384
maxStoreBlockSize == 65535

\* matchLen: the bytes on which the window agrees from 0-based positions p
\* and q on, max at most
MatchLen(win, p, q, max) ==
    CHOOSE n \in 0..max :
        /\ \A i \in 1..n : win[p + i] = win[q + i]
        /\ n = max \/ win[p + n + 1] # win[q + n + 1]

\* hash4 of the four bytes at 0-based position p: the upper 17 bits of the
\* big-endian word times 0x1e35a7bd modulo 2^32, worked out byte by byte
\* (c0..c3 are the columns of the product with their carries)
Hash4(win, p) ==
    LET c0 == win[p + 4] * 189
        c1 == win[p + 4] * 167 + win[p + 3] * 189 + c0 \div 256
        c2 == win[p + 4] * 53 + win[p + 3] * 167 + win[p + 2] * 189 + c1 \div 256
        c3 == win[p + 4] * 30 + win[p + 3] * 53 + win[p + 2] * 167 + win[p + 1] * 189
              + c2 \div 256
    IN (c3 % 256) * 512 + (c2 % 256) * 2 + (c1 % 256) \div 128

\* the hash chain of 0-based position pos: the positions entered in the
\* hash table that have the hash4 of pos and lie inside the window
HashChain(win, inserted, pos) ==
    {p \in inserted : /\ p < pos
                      /\ p >= pos - windowSize
                      /\ Hash4(win, p) = Hash4(win, pos)}

\* the positions compressor.findMatch tries: the first chain (128) of the
\* hash chain, nearest first
Tried(hashChain) ==
    {p \in hashChain : Cardinality({q \in hashChain : q > p}) < chain}

\* the loop of compressor.findMatch over the positions tried, n[p] the
\* length of the match at p.  A position is taken when its match is longer
\* than three bytes (than four, if it is more than 4096 back) and longer
\* than that of every position taken before it, and the loop ends at the
\* first match of niceLen bytes: taken holds the positions at which the
\* loop assigns length and offset, and the farthest of them is returned
LastTaken(pos, n, niceLen) ==
    LET fits == {p \in DOMAIN n : /\ n[p] > minMatchLength - 1
                                  /\ n[p] > minMatchLength \/ pos - p <= 4096}
        taken == {p \in fits : \A q \in fits : q > p => n[q] < niceLen /\ n[q] < n[p]}
    IN IF taken = {} THEN [length |-> minMatchLength - 1, offset |-> 0]
       ELSE [length |-> n[CHOOSE p \in taken : \A q \in taken : p <= q],
             offset |-> pos - CHOOSE p \in taken : \A q \in taken : p <= q]

\* compressor.findMatch for position pos with prevLength minMatchLength - 1,
\* as deflate calls it (so the good length, 8, never shortens the walk).
\* inserted holds the positions entered in the hash table.  A match is at
\* most maxMatchLength and at most the lookahead long, and nice (128) or
\* the whole of that ends the walk
FindMatch(win, inserted, pos, look) ==
    CHOOSE found \in
        {LastTaken(pos, n, Min(nice, Min(look, maxMatchLength))) :
            n \in {[p \in tried |-> MatchLen(win, p, pos, Min(look, maxMatchLength))]
                      @@ <<>> :
                   tried \in {Tried(hashChain) :
                              hashChain \in {HashChain(win, inserted, pos)}}}} : TRUE

\* the sequences lo..hi of ss one after the other, halving the range
RECURSIVE Concat(_, _, _)
Concat(ss, lo, hi) ==
    IF lo > hi THEN <<>>
    ELSE IF lo = hi THEN ss[lo]
    ELSE Concat(ss, lo, (lo + hi) \div 2) \o Concat(ss, (lo + hi) \div 2 + 1, hi)

\* the sum of the numbers lo..hi of s, halving the range
RECURSIVE SumOver(_, _, _)
SumOver(s, lo, hi) ==
    IF lo > hi THEN 0
    ELSE IF lo = hi THEN s[lo]
    ELSE SumOver(s, lo, (lo + hi) \div 2) + SumOver(s, (lo + hi) \div 2 + 1, hi)

\* sizes of the alphabets of compress/flate.  A table over an alphabet
\* holds the entry of symbol s at s + 1
maxNumLit == 286
offsetCodeCount == 30
codegenCodeCount == 19
endBlockMarker == 256
lengthCodesStart == 257
MaxInt32 == 2147483647

\* the order in which a dynamic header lists the code length code lengths
CodeOrder == <<16, 17, 18, 0, 8, 7, 9, 6, 10, 5, 11, 4, 12, 3, 13, 2, 14, 1, 15>>

\* token.literal, or lengthCodesStart + lengthCode(token.length)
TokenSymbol(t) ==
    IF t.lit >= 0 THEN t.lit ELSE lengthCodesStart + CodeIndex(LengthBase, t.length) - 1

\* the literals of freq that occur, as huffmanEncoder.generate sorts them:
\* by frequency, then by literal.  rank[s] tells how many come before the
\* literal at s, -1 when it does not occur
SortByFreq(freq) ==
    CHOOSE list \in
        {[r \in 1..Cardinality({s \in DOMAIN rank : rank[s] >= 0}) |->
             CHOOSE s \in DOMAIN rank : rank[s] = r - 1] \o <<>> :
         rank \in {[s \in 1..Len(freq) |->
                      IF freq[s] = 0 THEN -1
                      ELSE Cardinality({t \in 1..Len(freq) :
                              /\ freq[t] # 0
                              /\ \/ freq[t] < freq[s]
                                 \/ freq[t] = freq[s] /\ t < s})] \o <<>>}} : TRUE

\* huffmanEncoder.bitCounts before its loop: a bogus level 0, every level
\* as if its first two leaves were taken, and 2n - 4 more items needed at
\* the top.  list holds the sorted frequencies and maxNode after them
\* (list[k + 1] is list[k].freq of the code)
BitCountsInit(list, n, maxBits) ==
    [level |-> maxBits, done |-> FALSE,
     levels |-> [lv \in 0..(maxBits + 1) |->
                    IF lv = 0 \/ lv > maxBits
                    THEN [lastFreq |-> 0, nextCharFreq |-> 0, nextPairFreq |-> 0, needed |-> 0]
                    ELSE [lastFreq |-> list[2], nextCharFreq |-> list[3],
                          nextPairFreq |-> IF lv = 1 THEN MaxInt32 ELSE list[1] + list[2],
                          needed |-> IF lv = maxBits THEN 2 * n - 4 ELSE 0]],
     leafCounts |-> [lv \in 0..maxBits |->
                        [j \in 0..maxBits |-> IF j = lv /\ lv > 0 THEN 2 ELSE 0]]]

\* one round of the loop of huffmanEncoder.bitCounts: the level that has run
\* out of leaves and pairs is closed, else its next item is a leaf or a
\* pair of the level below, and the loop moves up when the level has what it
\* needs and down while the level below needs items
BitCountsStep(list, maxBits, st) ==
    LET lv == st.level
        l == st.levels[lv]
        leaf == l.nextCharFreq < l.nextPairFreq
        count == st.leafCounts[lv][lv] + 1
        lastFreq == IF leaf THEN l.nextCharFreq ELSE l.nextPairFreq
        needed == l.needed - 1
        levels == [st.levels EXCEPT
                      ![lv] = [lastFreq |-> lastFreq,
                               nextCharFreq |-> IF leaf THEN list[count + 1]
                                                ELSE l.nextCharFreq,
                               nextPairFreq |-> l.nextPairFreq,
                               needed |-> needed],
                      ![lv - 1].needed = IF leaf THEN @ ELSE 2,
                      ![lv + 1].nextPairFreq = IF needed = 0 /\ lv # maxBits
                                               THEN l.lastFreq + lastFreq ELSE @]
    IN IF l.nextPairFreq = MaxInt32 /\ l.nextCharFreq = MaxInt32
       THEN [st EXCEPT !.levels[lv].needed = 0,
                       !.levels[lv + 1].nextPairFreq = MaxInt32,
                       !.level = lv + 1]
       ELSE [level |-> IF needed = 0 THEN (IF lv = maxBits THEN lv ELSE lv + 1)
                       ELSE CHOOSE k \in 1..lv :
                               /\ \A j \in k..(lv - 1) : levels[j].needed > 0
                               /\ levels[k - 1].needed <= 0,
             done |-> needed = 0 /\ lv = maxBits,
             levels |-> levels,
             leafCounts |-> [st.leafCounts EXCEPT
                               ![lv] = IF leaf THEN [@ EXCEPT ![lv] = count]
                                       ELSE [j \in 0..maxBits |->
                                               IF j < lv THEN st.leafCounts[lv - 1][j]
                                               ELSE @[j]]]]

\* 2^k rounds of the loop, or as many as it takes
RECURSIVE BitCountsRounds(_, _, _, _)
BitCountsRounds(list, maxBits, st, k) ==
    IF st.done THEN st
    ELSE IF k = 0 THEN BitCountsStep(list, maxBits, st)
    ELSE CHOOSE r \in {BitCountsRounds(list, maxBits, half, k - 1) :
                          half \in {BitCountsRounds(list, maxBits, st, k - 1)}} : TRUE

\* huffmanEncoder.bitCounts: how many of the n literals get a code of b
\* bits, b up to maxBits, for frequencies sorted upwards
BitCounts(list, n, maxBits) ==
    CHOOSE bitCount \in
        {[b \in 1..maxBits |-> counts[maxBits + 1 - b] - counts[maxBits - b]] \o <<>> :
         counts \in {BitCountsRounds(list, maxBits, st, 20).leafCounts[maxBits] :
                     st \in {BitCountsInit(list, n, maxBits)}}} : TRUE

\* huffmanEncoder.assignEncodingAndSize, the lengths: the last bitCount[1]
\* literals of the sorted list get 1 bit, the bitCount[2] before them 2 bits
\* and so on
AssignLengths(size, list, bitCount) ==
    [s \in 1..size |->
        IF \E k \in 1..Len(list) : list[k] = s
        THEN CHOOSE b \in 1..Len(bitCount) :
                \E k \in 1..Len(list) :
                   /\ list[k] = s
                   /\ SumOver(bitCount, 1, b) >= Len(list) + 1 - k
                   /\ SumOver(bitCount, 1, b - 1) < Len(list) + 1 - k
        ELSE 0]

\* the lengths the sorted list gets: one bit each for up to two literals,
\* else what bitCounts finds in at most maxBits and at most n - 1 bits
LengthsOf(freq, list, n, maxBits) ==
    IF n <= 2 THEN [s \in 1..Len(freq) |-> IF freq[s] # 0 THEN 1 ELSE 0]
    ELSE CHOOSE lengths \in
            {AssignLengths(Len(freq), list, bitCount) :
             bitCount \in {BitCounts(sorted, n, Min(maxBits, n - 1)) :
                           sorted \in {[k \in 1..(n + 1) |->
                                          IF k <= n THEN freq[list[k]] ELSE MaxInt32]
                                       \o <<>>}}} : TRUE

\* huffmanEncoder.generate: the bit length of the code of every literal of
\* freq, 0 for a literal that does not occur
CodeLengths(freq, maxBits) ==
    CHOOSE r \in {LengthsOf(freq, list, Len(list), maxBits) \o <<>> :
                     list \in {SortByFreq(freq) \o <<>>}} : TRUE

\* the code huffmanEncoder.generate gives the literal at s: the codes of one
\* length count up in the order of the literals, from twice the end of the
\* codes one bit shorter
HuffmanCode(lengths, s) ==
    LET first[b \in 1..15] ==
            IF b = 1 THEN 0
            ELSE 2 * (first[b - 1]
                      + Cardinality({t \in 1..Len(lengths) : lengths[t] = b - 1}))
    IN CodeOf(first[lengths[s]]
              + Cardinality({t \in 1..(s - 1) : lengths[t] = lengths[s]}),
              lengths[s])

\* huffmanEncoder.bitLength
BitLength(lengths, freq) ==
    SumOver([s \in 1..Len(freq) |-> freq[s] * lengths[s]], 1, Len(freq))

\* fixedLiteralEncoding and fixedOffsetEncoding
FixedCodes ==
    [literalLengths |-> [s \in 1..maxNumLit |-> FixedLitLength(s - 1)],
     offsetLengths |-> [s \in 1..offsetCodeCount |-> 5],
     literal |-> [s \in 1..maxNumLit |-> FixedLitCode(s - 1)],
     offset |-> [s \in 1..offsetCodeCount |-> CodeOf(s - 1, 5)]]

\* the number of entries of freq up to the last that is not 0
NumUsed(freq) ==
    IF \A s \in 1..Len(freq) : freq[s] = 0 THEN 0
    ELSE CHOOSE k \in 1..Len(freq) : freq[k] # 0 /\ \A s \in (k + 1)..Len(freq) : freq[s] = 0

\* the frequencies huffmanBitWriter.indexTokens counts in the tokens, end of
\* block included: one offset is counted when there is no match
TokenFreq(tokens) ==
    [literalFreq |-> [s \in 1..maxNumLit |->
                         Cardinality({i \in 1..Len(tokens) :
                                         TokenSymbol(tokens[i]) = s - 1})] \o <<>>,
     offsetFreq |-> [s \in 1..offsetCodeCount |->
                        IF \A i \in 1..Len(tokens) : tokens[i].lit >= 0
                        THEN (IF s = 1 THEN 1 ELSE 0)
                        ELSE Cardinality({i \in 1..Len(tokens) :
                                 /\ tokens[i].lit < 0
                                 /\ CodeIndex(DistBase, tokens[i].dist) = s})] \o <<>>]

\* huffmanBitWriter.indexTokens: frequencies, numLiterals, numOffsets and
\* the lengths of the codes generated for them
IndexTokens(tokens) ==
    CHOOSE w \in
        {[tokens |-> tokens,
          literalFreq |-> f.literalFreq, offsetFreq |-> f.offsetFreq,
          numLiterals |-> NumUsed(f.literalFreq), numOffsets |-> NumUsed(f.offsetFreq),
          literalLengths |-> CodeLengths(f.literalFreq, 15),
          offsetLengths |-> CodeLengths(f.offsetFreq, 15),
          codegen |-> <<>>, codegenFreq |-> <<>>, codegenLengths |-> <<>>] :
         f \in {TokenFreq(tokens)}} : TRUE

\* the codegen of one run of count equal code lengths, as a code and the
\* number that goes into its extra bits.  A length that is not 0 is written
\* once and then repeated by code 16, 3 to 6 times each; zeros are repeated
\* by code 18, 11 to 138 times each, or by code 17, 3 to 10 times; what is
\* left, two at most, is written out
RECURSIVE RunCodes(_, _, _)
RunCodes(size, count, first) ==
    IF size # 0 /\ first
    THEN <<[code |-> size, extra |-> 0]>> \o RunCodes(size, count - 1, FALSE)
    ELSE IF size # 0 /\ count >= 3
    THEN <<[code |-> 16, extra |-> Min(6, count) - 3]>>
            \o RunCodes(size, count - Min(6, count), FALSE)
    ELSE IF size = 0 /\ count >= 11
    THEN <<[code |-> 18, extra |-> Min(138, count) - 11]>>
            \o RunCodes(size, count - Min(138, count), FALSE)
    ELSE IF size = 0 /\ count >= 3
    THEN <<[code |-> 17, extra |-> count - 3]>>
    ELSE [i \in 1..count |-> [code |-> size, extra |-> 0]]

\* the codegen of the code lengths sizes, run by run; starts holds the
\* places where a run begins
RunsOf(sizes, starts) ==
    Concat([k \in 1..Len(starts) |->
               RunCodes(sizes[starts[k]],
                        (IF k = Len(starts) THEN Len(sizes) + 1 ELSE starts[k + 1])
                           - starts[k],
                        TRUE)],
           1, Len(starts))

\* huffmanBitWriter.generateCodegen over the code lengths sizes
Codegen(sizes) ==
    CHOOSE codegen \in
        {RunsOf(sizes, starts) :
         starts \in {SelectSeq([i \in 1..Len(sizes) |-> i],
                               LAMBDA i : i = 1 \/ sizes[i] # sizes[i - 1])}} : TRUE

\* codegenFreq, and the codegenEncoding generated for it in at most 7 bits
CodegenCodes(w, codegen, freq) ==
    [w EXCEPT !.codegen = codegen, !.codegenFreq = freq,
              !.codegenLengths = CodeLengths(freq, 7)]

\* huffmanBitWriter.generateCodegen over the lengths of the numLiterals and
\* numOffsets first codes, and codegenEncoding.generate
GenerateCodegen(w) ==
    CHOOSE v \in
        {CodegenCodes(w, codegen, freq) :
         <<codegen, freq>> \in
            {<<c, [k \in 1..codegenCodeCount |->
                      Cardinality({i \in 1..Len(c) : c[i].code = k - 1})] \o <<>>>> :
             c \in {Codegen(sizes) :
                    sizes \in {SubSeq(w.literalLengths, 1, w.numLiterals)
                                  \o SubSeq(w.offsetLengths, 1, w.numOffsets)}}}} : TRUE

\* the extra bits of the lengths and offsets of the tokens; the first eight
\* length codes and the first four offset codes have none
ExtraBits(w) ==
    SumOver([s \in 1..maxNumLit |->
                IF s > lengthCodesStart + 8 /\ s <= w.numLiterals
                THEN w.literalFreq[s] * LengthExtra[s - lengthCodesStart] ELSE 0],
            1, maxNumLit)
    + SumOver([s \in 1..offsetCodeCount |->
                  IF s > 4 /\ s <= w.numOffsets
                  THEN w.offsetFreq[s] * DistExtra[s] ELSE 0],
              1, offsetCodeCount)

\* huffmanBitWriter.fixedSize: the bits of the block in the fixed codes
FixedSize(w, extraBits) ==
    3 + BitLength(FixedCodes.literalLengths, w.literalFreq)
      + BitLength(FixedCodes.offsetLengths, w.offsetFreq) + extraBits

\* numCodegens of huffmanBitWriter.dynamicSize: the code length code lengths
\* the header lists, in CodeOrder, at least four
NumCodegens(freq) ==
    CHOOSE k \in 4..codegenCodeCount :
        /\ k = 4 \/ freq[CodeOrder[k] + 1] # 0
        /\ \A j \in (k + 1)..codegenCodeCount : freq[CodeOrder[j] + 1] = 0

\* huffmanBitWriter.dynamicSize: the bits of the block in the codes
\* generated for it, header included
DynamicSize(w, extraBits) ==
    3 + 5 + 5 + 4 + 3 * NumCodegens(w.codegenFreq)
      + BitLength(w.codegenLengths, w.codegenFreq)
      + w.codegenFreq[17] * 2 + w.codegenFreq[18] * 3 + w.codegenFreq[19] * 7
      + BitLength(w.literalLengths, w.literalFreq)
      + BitLength(w.offsetLengths, w.offsetFreq) + extraBits

\* huffmanBitWriter.writeStoredHeader
StoredHeader(bits, length, isEof) ==
    PadToByte(bits \o BitsOf(IF isEof THEN 1 ELSE 0, 3))
       \o BitsOf(length, 16) \o BitsOf(65535 - length, 16)

\* huffmanBitWriter.writeFixedHeader
FixedHeader(isEof) == BitsOf(IF isEof THEN 3 ELSE 2, 3)

\* one entry of the codegen in a dynamic header: its code, and the extra
\* bits of the codes 16, 17 and 18
CodegenBits(w, e) ==
    HuffmanCode(w.codegenLengths, e.code + 1)
       \o BitsOf(e.extra, IF e.code = 16 THEN 2 ELSE IF e.code = 17 THEN 3
                          ELSE IF e.code = 18 THEN 7 ELSE 0)

\* huffmanBitWriter.writeDynamicHeader
WriteDynamicHeader(w, numCodegens, isEof) ==
    BitsOf(IF isEof THEN 5 ELSE 4, 3)
       \o BitsOf(w.numLiterals - 257, 5) \o BitsOf(w.numOffsets - 1, 5)
       \o BitsOf(numCodegens - 4, 4)
       \o Concat([i \in 1..numCodegens |-> BitsOf(w.codegenLengths[CodeOrder[i] + 1], 3)],
                 1, numCodegens)
       \o Concat([i \in 1..Len(w.codegen) |-> CodegenBits(w, w.codegen[i])],
                 1, Len(w.codegen))

\* the codes of the literals and offsets generated for the block
GeneratedCodes(w) ==
    [literal |-> [s \in 1..maxNumLit |-> HuffmanCode(w.literalLengths, s)],
     offset |-> [s \in 1..offsetCodeCount |-> HuffmanCode(w.offsetLengths, s)]]

\* huffmanBitWriter.writeTokens for one token
TokenBits(t, codes) ==
    IF t.lit >= 0 THEN codes.literal[t.lit + 1]
    ELSE codes.literal[TokenSymbol(t) + 1]
            \o BitsOf(t.length - LengthBase[CodeIndex(LengthBase, t.length)],
                      LengthExtra[CodeIndex(LengthBase, t.length)])
            \o codes.offset[CodeIndex(DistBase, t.dist)]
            \o BitsOf(t.dist - DistBase[CodeIndex(DistBase, t.dist)],
                      DistExtra[CodeIndex(DistBase, t.dist)])

\* huffmanBitWriter.writeTokens
WriteTokens(tokens, codes) ==
    Concat([i \in 1..Len(tokens) |-> TokenBits(tokens[i], codes)], 1, Len(tokens))

\* a byte slice: nil, or the bytes it holds
NilSlice == [isNil |-> TRUE, bytes |-> <<>>]
Slice(bytes) == [isNil |-> FALSE, bytes |-> bytes]

\* huffmanBitWriter.storedSize: the bits a stored block takes for the input
\* and whether it can be stored: not when the compressor has no input to
\* hand over, nor when it is longer than a stored block may be
StoredSize(in) ==
    IF in.isNil THEN [size |-> 0, storable |-> FALSE]
    ELSE IF Len(in.bytes) <= maxStoreBlockSize
    THEN [size |-> (Len(in.bytes) + 5) * 8, storable |-> TRUE]
    ELSE [size |-> 0, storable |-> FALSE]

\* the end of huffmanBitWriter.writeBlock, not the last block, behind the
\* bits written before: the input stored when it can be and that takes the
\* fewest bits, else the tokens in the dynamic codes when these take fewer
\* bits than the fixed ones, else in the fixed codes
WriteSmallest(w, bits, in, fixedSize, dynamicSize) ==
    IF StoredSize(in).storable /\ StoredSize(in).size < Min(fixedSize, dynamicSize)
    THEN StoredHeader(bits, Len(in.bytes), FALSE) \o UnpackBits(in.bytes)
    ELSE IF dynamicSize < fixedSize
    THEN bits \o WriteDynamicHeader(w, NumCodegens(w.codegenFreq), FALSE)
              \o WriteTokens(w.tokens, GeneratedCodes(w))
    ELSE bits \o FixedHeader(FALSE) \o WriteTokens(w.tokens, FixedCodes)

\* the sizes huffmanBitWriter.writeBlock compares
WriteSized(w, bits, in, extraBits) ==
    CHOOSE out \in
        {WriteSmallest(w, bits, in, fixedSize, dynamicSize) :
         fixedSize \in {FixedSize(w, extraBits)},
         dynamicSize \in {DynamicSize(w, extraBits)}} : TRUE

\* generateCodegen and the extra bits of huffmanBitWriter.writeBlock; the
\* extra bits are counted only when the input can be stored
WriteIndexed(w, bits, in) ==
    CHOOSE out \in
        {WriteSized(v, bits, in, extraBits) :
         v \in {GenerateCodegen(w)},
         extraBits \in {IF StoredSize(in).storable THEN ExtraBits(w) ELSE 0}} : TRUE

\* huffmanBitWriter.writeBlock(tokens, false, in) behind the bits written
\* before: the end of block marker is added to the tokens
WriteBlock(bits, tokens, in) ==
    CHOOSE out \in
        {WriteIndexed(w, bits, in) :
         w \in {IndexTokens(all) :
                all \in {Append(tokens, Literal(endBlockMarker))}}} : TRUE

\* the compressor flate.NewWriter leaves at level 6.  window holds
\* d.window[:d.windowEnd], index, blockStart, length, offset, byteAvailable
\* and tokens are the fields of that name, inserted holds the positions of
\* the window entered in the hash table, bits what the huffmanBitWriter has
\* written, done tells that deflate has left its loop
NewCompressor ==
    [window |-> <<>>, index |-> 0, blockStart |-> 0, length |-> minMatchLength - 1,
     offset |-> 0, byteAvailable |-> FALSE, tokens |-> <<>>, inserted |-> {},
     bits |-> <<>>, done |-> FALSE]

\* compressor.writeBlock(d.tokens, index) and the d.tokens = d.tokens[:0]
\* behind it: the block is written with the window from blockStart to
\* index as its input, with none when a shift of the window has cut
\* blockStart off
CompressorWriteBlock(d, index) ==
    IF index > 0
    THEN [d EXCEPT !.blockStart = index, !.tokens = <<>>,
                   !.bits = WriteBlock(d.bits, d.tokens,
                                       IF d.blockStart <= index
                                       THEN Slice(SubSeq(d.window, d.blockStart + 1, index))
                                       ELSE NilSlice)]
    ELSE [d EXCEPT !.tokens = <<>>]

\* the block deflate writes once it holds maxFlateBlockTokens tokens
FlushFull(d, index) ==
    IF Len(d.tokens) = maxFlateBlockTokens THEN CompressorWriteBlock(d, index) ELSE d

\* the match one round of deflate looks for at d.index: none when the
\* position is not entered in the hash table or the match of the position
\* before is long enough
DeflateFind(d) ==
    IF /\ d.index < Len(d.window) - (minMatchLength - 1)
       /\ Len(d.window) - d.index > d.length
       /\ d.length < lazy
    THEN FindMatch(d.window, d.inserted, d.index, Len(d.window) - d.index)
    ELSE [length |-> minMatchLength - 1, offset |-> 0]

\* what one round of deflate does with the match found at d.index: the
\* match of the position before is emitted when it is no shorter, and the
\* positions it covers are entered in the hash table; else the byte before
\* is emitted as a literal, if it is not yet
DeflateEmit(d, found) ==
    LET maxInsertIndex == Len(d.window) - (minMatchLength - 1)
        inserted == IF d.index < maxInsertIndex THEN d.inserted \cup {d.index}
                    ELSE d.inserted
        newIndex == d.index + d.length - 1
    IN IF d.length >= minMatchLength /\ found.length <= d.length
       THEN FlushFull([d EXCEPT !.index = newIndex,
                                !.length = minMatchLength - 1,
                                !.offset = found.offset,
                                !.byteAvailable = FALSE,
                                !.tokens = Append(@, Match(d.length, d.offset)),
                                !.inserted = inserted \cup
                                    {i \in (d.index + 1)..(newIndex - 1) : i < maxInsertIndex}],
                      newIndex)
       ELSE [FlushFull([d EXCEPT !.tokens = IF d.byteAvailable
                                            THEN Append(@, Literal(d.window[d.index]))
                                            ELSE @,
                                 !.inserted = inserted],
                       d.index)
                EXCEPT !.index = d.index + 1, !.length = found.length,
                       !.offset = found.offset, !.byteAvailable = TRUE]

\* one round of the loop of compressor.deflate.  Without sync the loop is
\* left when fewer than minMatchLength + maxMatchLength bytes lie ahead;
\* with sync it goes on to the end of the window, where the unsent byte is
\* emitted and the tokens are written as a block
DeflateStep(d, sync) ==
    IF Len(d.window) - d.index < minMatchLength + maxMatchLength /\ ~ sync
    THEN [d EXCEPT !.done = TRUE]
    ELSE IF Len(d.window) = d.index
    THEN CHOOSE out \in
            {[(IF Len(unsent.tokens) > 0 THEN CompressorWriteBlock(unsent, d.index)
               ELSE unsent) EXCEPT !.done = TRUE] :
             unsent \in {[d EXCEPT !.tokens = IF d.byteAvailable
                                               THEN Append(@, Literal(d.window[d.index]))
                                               ELSE @,
                                    !.byteAvailable = FALSE]}} : TRUE
    ELSE CHOOSE out \in {DeflateEmit(d, found) : found \in {DeflateFind(d)}} : TRUE

\* 2^k rounds of the loop, or as many as it takes
RECURSIVE DeflateRounds(_, _, _)
DeflateRounds(d, sync, k) ==
    IF d.done THEN d
    ELSE IF k = 0 THEN DeflateStep(d, sync)
    ELSE CHOOSE out \in {DeflateRounds(half, sync, k - 1) :
                            half \in {DeflateRounds(d, sync, k - 1)}} : TRUE

\* the loop of compressor.deflate to its end
RECURSIVE DeflateLoop(_, _)
DeflateLoop(d, sync) ==
    IF d.done THEN d
    ELSE CHOOSE out \in {DeflateLoop(next, sync) :
                            next \in {DeflateRounds(d, sync, 6)}} : TRUE

\* compressor.deflate
Deflate(d, sync) ==
    CHOOSE out \in {DeflateLoop(start, sync) : start \in {[d EXCEPT !.done = FALSE]}} : TRUE

\* compressor.fillDeflate: once index is within minMatchLength +
\* maxMatchLength of the end of the window of 2 * windowSize bytes, the
\* upper half becomes the lower one and the positions of the lower half
\* drop out of the hash table; then the window takes what it has room for.
\* n is the number of bytes taken
FillDeflate(d, b) ==
    CHOOSE out \in
        {[d |-> [shifted EXCEPT
                    !.window = @ \o SubSeq(b, 1, Min(Len(b), 2 * windowSize - Len(@)))],
          n |-> Min(Len(b), 2 * windowSize - Len(shifted.window))] :
         shifted \in
            {IF d.index >= 2 * windowSize - (minMatchLength + maxMatchLength)
             THEN [d EXCEPT !.window = SubSeq(@, windowSize + 1, Len(@)),
                            !.index = @ - windowSize,
                            !.blockStart = IF @ >= windowSize THEN @ - windowSize
                                           ELSE MaxInt32,
                            !.inserted = {p - windowSize : p \in {q \in @ : q >= windowSize}}]
             ELSE d}} : TRUE

\* compressor.write: deflate and fill by turns until the window has taken
\* every byte
RECURSIVE CompressorWrite(_, _)
CompressorWrite(d, b) ==
    IF Len(b) = 0 THEN d
    ELSE CHOOSE out \in
            {CompressorWrite(filled.d, SubSeq(b, filled.n + 1, Len(b))) :
             filled \in {FillDeflate(deflated, b) :
                         deflated \in {Deflate(d, FALSE)}}} : TRUE

\* compressor.close: deflate with sync set, then an empty stored block
\* marked last, and the bits flushed as bytes
CompressorClose(d) ==
    CHOOSE bytes \in
        {PackBits(StoredHeader(deflated.bits, 0, TRUE)) :
         deflated \in {Deflate(d, TRUE)}} : TRUE

\* flate.Writer: Write(raw) and Close()
FlateWrite(raw) ==
    CHOOSE bytes \in
        {CompressorClose(written) :
         written \in {CompressorWrite(NewCompressor, raw)}} : TRUE

\* gzip.NewWriter(&b); Write(content); Close(): the bytes left in b
GzipWrite(raw) == GzipHeader \o FlateWrite(raw) \o GzipTrailer(raw)

\* the codes left unused by the lengths, in units of 2^-15: 0 for a complete
\* code, negative for an over-subscribed one
RECURSIVE CodesLeft(_, _, _)
CodesLeft(count, l, left) ==
    IF l > 15 THEN left
    ELSE IF 2 * left - count[l] < 0 THEN -1
    ELSE CodesLeft(count, l + 1, 2 * left - count[l])

\* huffmanDecoder.init: a set of lengths is a code when it is empty,
\* complete, or one single code of one bit
HuffmanOK(h) ==
    \/ \A l \in 1..15 : h.count[l] = 0
    \/ CodesLeft(h.count, 1, 1) = 0
    \/ (h.count[1] = 1 /\ \A l \in 2..15 : h.count[l] = 0)

\* a Huffman decoder for code lengths given per symbol (symbol s at s + 1):
\* count[l] symbols have length l, symbol lists them by length and value.
\* min is the length of the shortest code, the bits huffSym asks for before
\* it looks a code up; init leaves it 0 for no code at all and for lengths
\* it rejects
Huffman(lengths) ==
    LET ofLength(l) == SelectSeq([i \in 1..Len(lengths) |-> i - 1],
                                 LAMBDA s : lengths[s + 1] = l)
        used == {l \in 1..15 : \E i \in 1..Len(lengths) : lengths[i] = l}
        counts == [l \in 1..15 |-> Len(ofLength(l))]
    IN [count |-> counts,
        symbol |-> ofLength(1) \o ofLength(2) \o ofLength(3) \o ofLength(4) \o ofLength(5)
                   \o ofLength(6) \o ofLength(7) \o ofLength(8) \o ofLength(9)
                   \o ofLength(10) \o ofLength(11) \o ofLength(12) \o ofLength(13)
                   \o ofLength(14) \o ofLength(15),
        min |-> IF used = {} \/ ~ HuffmanOK([count |-> counts]) THEN 0
                ELSE CHOOSE l \in used : \A m \in used : l <= m]

\* decompressor.readHuffman behind the two init calls: the literal decoder
\* asks for at least the n bits of the end-of-block code, which every block
\* ends with
RaiseMin(h, n) == [h EXCEPT !.min = IF @ < n THEN n ELSE @]

\* one symbol read from the bit stream at pos (decompressor.huffSym).  The
\* reader first takes whole bytes until it holds h.min bits and fails when
\* the stream ends before, even if a shorter code is there; then the code
\* grows bit by bit until it falls among the codes of its length.  sym is
\* -1 when the stream ends or no code fits
RECURSIVE DecodeSymbol(_, _, _, _, _, _, _)
DecodeSymbol(bits, pos, h, l, code, first, index) ==
    IF l = 1 /\ Len(bits) - pos < h.min THEN [sym |-> -1, pos |-> pos]
    ELSE IF l > 15 \/ pos >= Len(bits) THEN [sym |-> -1, pos |-> pos]
    ELSE LET c == code + bits[pos + 1]
             count == h.count[l]
         IN IF c - count < first
            THEN [sym |-> h.symbol[index + (c - first) + 1], pos |-> pos + 1]
            ELSE DecodeSymbol(bits, pos + 1, h, l + 1, 2 * c,
                              2 * (first + count), index + count)

\* the decoders of the fixed codes (RFC 1951 3.2.6)
FixedLit == Huffman([i \in 1..288 |-> FixedLitLength(i - 1)])
FixedDist == Huffman([i \in 1..32 |-> 5])

\* the bytes of a match copied from the output itself: where the match
\* overlaps its own copy, the last dist bytes repeat
CopyMatch(out, dist, n) ==
    out \o [i \in 1..n |-> out[Len(out) - dist + 1 + ((i - 1) % dist)]]

\* one round of the loop of decompressor.huffmanBlock: a symbol, with the
\* distance that follows a length.  ok turns FALSE for a stream that ends
\* early, a symbol that is no code, a length symbol above 285, a distance
\* code above 29 or a distance past the output; done is set at the end of
\* the block and at an error
HuffmanStep(bits, lit, dst, z) ==
    LET s == DecodeSymbol(bits, z.pos, lit, 1, 0, 0, 0)
        lc == s.sym - 256
        lx == LengthExtra[lc]
        length == LengthBase[lc] + ValueOf(bits, s.pos, lx)
        d == DecodeSymbol(bits, s.pos + lx, dst, 1, 0, 0, 0)
        dx == DistExtra[d.sym + 1]
        dist == DistBase[d.sym + 1] + ValueOf(bits, d.pos, dx)
        fail == [z EXCEPT !.ok = FALSE, !.done = TRUE]
    IN IF s.sym < 0 \/ s.sym > 285 THEN fail
       ELSE IF s.sym < 256 THEN [z EXCEPT !.pos = s.pos, !.out = Append(@, s.sym)]
       ELSE IF s.sym = 256 THEN [z EXCEPT !.pos = s.pos, !.done = TRUE]
       ELSE IF s.pos + lx > Len(bits) THEN fail
       ELSE IF d.sym < 0 \/ d.sym > 29 THEN fail
       ELSE IF d.pos + dx > Len(bits) THEN fail
       ELSE IF dist > Len(z.out) THEN fail
       ELSE [z EXCEPT !.pos = d.pos + dx, !.out = CopyMatch(@, dist, length)]

\* 2^k rounds of the loop, or as many as it takes
RECURSIVE HuffmanRounds(_, _, _, _, _)
HuffmanRounds(bits, lit, dst, z, k) ==
    IF z.done THEN z
    ELSE IF k = 0 THEN HuffmanStep(bits, lit, dst, z)
    ELSE CHOOSE r \in {HuffmanRounds(bits, lit, dst, half, k - 1) :
                          half \in {HuffmanRounds(bits, lit, dst, z, k - 1)}} : TRUE

RECURSIVE HuffmanBlock(_, _, _, _)
HuffmanBlock(bits, lit, dst, z) ==
    IF z.done THEN [ok |-> z.ok, pos |-> z.pos, out |-> z.out]
    ELSE CHOOSE r \in {HuffmanBlock(bits, lit, dst, next) :
                          next \in {HuffmanRounds(bits, lit, dst, z, 6)}} : TRUE

\* decompressor.huffmanBlock: the symbols of a block with the decoders lit
\* and dst, from bit pos on
InflateCodes(bits, pos, out, lit, dst) ==
    HuffmanBlock(bits, lit, dst, [ok |-> TRUE, done |-> FALSE, pos |-> pos, out |-> out])

\* one round of the loop of decompressor.readHuffman over the run-length
\* coded lengths, read with the code length decoder h until there are n.
\* ok turns FALSE for a stream that ends early, a repeat with nothing
\* before it or a run past n
LengthsStep(bits, h, n, r) ==
    LET s == DecodeSymbol(bits, r.pos, h, 1, 0, 0, 0)
        extra == IF s.sym = 16 THEN 2 ELSE IF s.sym = 17 THEN 3 ELSE 7
        start == IF s.sym = 18 THEN 11 ELSE 3
        rep == start + ValueOf(bits, s.pos, extra)
        what == IF s.sym = 16 THEN r.lengths[Len(r.lengths)] ELSE 0
        fail == [r EXCEPT !.ok = FALSE, !.done = TRUE]
        more(got, pos) == [ok |-> TRUE, done |-> Len(got) = n, pos |-> pos, lengths |-> got]
    IN IF s.sym < 0 THEN fail
       ELSE IF s.sym < 16 THEN more(Append(r.lengths, s.sym), s.pos)
       ELSE IF (s.sym = 16 /\ Len(r.lengths) = 0) \/ s.pos + extra > Len(bits) THEN fail
       ELSE IF Len(r.lengths) + rep > n THEN fail
       ELSE more(r.lengths \o [i \in 1..rep |-> what], s.pos + extra)

\* 2^k rounds of the loop, or as many as it takes
RECURSIVE LengthsRounds(_, _, _, _, _)
LengthsRounds(bits, h, n, r, k) ==
    IF r.done THEN r
    ELSE IF k = 0 THEN LengthsStep(bits, h, n, r)
    ELSE CHOOSE v \in {LengthsRounds(bits, h, n, half, k - 1) :
                          half \in {LengthsRounds(bits, h, n, r, k - 1)}} : TRUE

\* the n code lengths of a dynamic header, from bit pos on (n is at most
\* 316, so 2^9 rounds are enough)
ReadLengths(bits, pos, h, n) ==
    LengthsRounds(bits, h, n, [ok |-> TRUE, done |-> FALSE, pos |-> pos, lengths |-> <<>>], 9)

\* a block with dynamic codes, last stage: the symbols, read with the
\* decoders the header gave
DynamicBlock(bits, pos, out, lit, dst) ==
    IF ~ HuffmanOK(lit) \/ ~ HuffmanOK(dst) THEN [ok |-> FALSE, pos |-> pos, out |-> out]
    ELSE InflateCodes(bits, pos, out, lit, dst)

\* third stage of decompressor.readHuffman: the decoders made of the
\* lengths r read
DynamicCodes(bits, out, nlit, ndist, r) ==
    IF ~ r.ok THEN [ok |-> FALSE, pos |-> r.pos, out |-> out]
    ELSE DynamicBlock(bits, r.pos, out,
                      RaiseMin(Huffman(SubSeq(r.lengths, 1, nlit)),
                               r.lengths[endBlockMarker + 1]),
                      Huffman(SubSeq(r.lengths, nlit + 1, nlit + ndist)))

\* second stage: the nlit + ndist code lengths, read from bit p on with the
\* code length decoder h
DynamicLengths(bits, p, out, nlit, ndist, h) ==
    IF ~ HuffmanOK(h) THEN [ok |-> FALSE, pos |-> p, out |-> out]
    ELSE DynamicCodes(bits, out, nlit, ndist, ReadLengths(bits, p, h, nlit + ndist))

\* first stage: the nclen code length code lengths, three bits each from
\* bit p on, in the order of CodeOrder
DynamicHeader(bits, p, out, nlit, ndist, nclen) ==
    IF nlit > 286 \/ ndist > 30 \/ p + 3 * nclen > Len(bits)
    THEN [ok |-> FALSE, pos |-> p, out |-> out]
    ELSE DynamicLengths(bits, p + 3 * nclen, out, nlit, ndist,
            Huffman([i \in 1..19 |->
                       IF \E j \in 1..nclen : CodeOrder[j] = i - 1
                       THEN ValueOf(bits,
                               p + 3 * ((CHOOSE j \in 1..nclen : CodeOrder[j] = i - 1) - 1), 3)
                       ELSE 0]))

\* a block with dynamic codes: the header (decompressor.readHuffman), then
\* the symbols
InflateDynamic(bits, pos, out) ==
    IF pos + 14 > Len(bits) THEN [ok |-> FALSE, pos |-> pos, out |-> out]
    ELSE DynamicHeader(bits, pos + 14, out, ValueOf(bits, pos, 5) + 257,
                       ValueOf(bits, pos + 5, 5) + 1, ValueOf(bits, pos + 10, 4) + 4)

\* decompressor.dataBlock: a stored block, from the byte boundary on
InflateStored(bits, pos, out) ==
    LET p == pos + ((8 - (pos % 8)) % 8)
    IN IF p + 32 > Len(bits) THEN [ok |-> FALSE, pos |-> p, out |-> out]
       ELSE LET n == ValueOf(bits, p, 16)
                nn == ValueOf(bits, p + 16, 16)
            IN IF nn # 65535 - n \/ p + 32 + 8 * n > Len(bits)
               THEN [ok |-> FALSE, pos |-> p, out |-> out]
               ELSE [ok |-> TRUE, pos |-> p + 32 + 8 * n,
                     out |-> out \o [i \in 1..n |-> ValueOf(bits, p + 32 + 8 * (i - 1), 8)]]

RECURSIVE Inflate(_, _, _)

\* decompressor.nextBlock: the block of the given type whose three header
\* bits are at pos
InflateBlock(bits, pos, out, type) ==
    IF type = 0 THEN InflateStored(bits, pos + 3, out)
    ELSE IF type = 1 THEN InflateCodes(bits, pos + 3, out, FixedLit, FixedDist)
    ELSE IF type = 2 THEN InflateDynamic(bits, pos + 3, out)
    ELSE [ok |-> FALSE, pos |-> pos, out |-> out]

\* behind the block b: the end at an error and after the block marked
\* last, else the next block
InflateNext(bits, final, b) ==
    IF ~ b.ok \/ final THEN b ELSE Inflate(bits, b.pos, b.out)

\* decompressor.Read to the end: block after block up to the one marked last
Inflate(bits, pos, out) ==
    IF pos + 3 > Len(bits) THEN [ok |-> FALSE, pos |-> pos, out |-> out]
    ELSE InflateNext(bits, bits[pos + 1] = 1,
                     InflateBlock(bits, pos, out, ValueOf(bits, pos + 1, 2)))

\* the 1-based index of the first zero byte of s from index i on, 0 if none
ZeroFrom(s, i) ==
    IF \E j \in i..Len(s) : s[j] = 0
    THEN CHOOSE j \in i..Len(s) : s[j] = 0 /\ \A m \in i..(j - 1) : s[m] # 0
    ELSE 0

\* gzip.Reader.readHeader, FEXTRA: the index of the last byte of the fixed
\* part and the extra field, 0 when the field is cut short
HeaderExtra(s) ==
    IF (s[4] \div 4) % 2 = 0 THEN 10
    ELSE IF 12 > Len(s) THEN 0
    ELSE IF 12 + s[11] + 256 * s[12] > Len(s) THEN 0
    ELSE 12 + s[11] + 256 * s[12]

\* gzip.Reader.readString: the index z of the zero byte that ends the
\* string behind index e, 0 when there is none (z = 0) or the string takes
\* 512 bytes or more
StringEnd(e, z) == IF z = 0 \/ z - e > 512 THEN 0 ELSE z

\* gzip.Reader.readHeader, FNAME and FCOMMENT: the index of the last byte
\* of the string behind index e when the flag has is set
HeaderString(s, e, has) ==
    IF e = 0 \/ ~ has THEN e ELSE StringEnd(e, ZeroFrom(s, e + 1))

\* gzip.Reader.readHeader, FHCRC: the two bytes behind index e are the low
\* half of the CRC-32 of the header before them
HeaderCrc(s, e) ==
    IF e = 0 \/ (s[4] \div 2) % 2 = 0 THEN e
    ELSE IF e + 2 > Len(s) THEN 0
    ELSE IF s[e + 1] + 256 * s[e + 2] # Crc32(SubSeq(s, 1, e)).lo THEN 0
    ELSE e + 2

\* gzip.Reader.readHeader: the length of the member header that s opens
\* with, 0 when there is none: fewer than ten bytes, wrong identification
\* or method, a truncated extra field, name or comment, or a wrong header
\* checksum
GzipHeaderLen(s) ==
    IF Len(s) < 10 \/ s[1] # 31 \/ s[2] # 139 \/ s[3] # 8 THEN 0
    ELSE HeaderCrc(s, HeaderString(s, HeaderString(s, HeaderExtra(s), (s[4] \div 8) % 2 = 1),
                                   (s[4] \div 16) % 2 = 1))

RECURSIVE GzipMembers(_, _, _)

\* gzip.Reader.Read at the end of the deflate stream z of a member whose
\* header takes h bytes of rest: the CRC-32 and the length of what it
\* decoded, then the next member or the end of the stream
GzipMemberEnd(s, i, out, rest, h, z) ==
    LET t == h + (z.pos + 7) \div 8
    IN IF ~ z.ok THEN [ok |-> FALSE, data |-> out]
       ELSE IF t + 8 > Len(rest) \/ SubSeq(rest, t + 1, t + 8) # GzipTrailer(z.out)
       THEN [ok |-> FALSE, data |-> out \o z.out]
       ELSE IF t + 8 = Len(rest) THEN [ok |-> TRUE, data |-> out \o z.out]
       ELSE GzipMembers(s, i + t + 8, out \o z.out)

\* the member that rest opens with, its header taking h bytes
GzipMember(s, i, out, rest, h) ==
    IF h = 0 THEN [ok |-> FALSE, data |-> out]
    ELSE GzipMemberEnd(s, i, out, rest, h,
                       Inflate(UnpackBits(SubSeq(rest, h + 1, Len(rest))), 0, <<>>))

\* gzip.Reader.Read to the end, member after member from index i on
GzipMembers(s, i, out) ==
    GzipMember(s, i, out, SubSeq(s, i, Len(s)), GzipHeaderLen(SubSeq(s, i, Len(s))))

\* gzip.NewReader succeeds iff the stream opens with a member header
GzipHeaderOK(s) == GzipHeaderLen(s) > 0

\* ioutil.ReadAll of the gzip reader: the bytes and whether it met no error
GzipRead(s) == GzipMembers(s, 1, <<>>)

-----------------------------------------------------------------------------
(* The contents of the tables the model follows, and the streams Compress  *)
(* and Decompress make of them.                                            *)

\* the byte string raw payloads are cut from; it opens like a gzip stream
PayloadSource == <<31, 139, 104, 105, 33, 33>>

\* the raw contents Init chooses from
Contents == {SubSeq(PayloadSource, 1, n) : n \in 0..MaxContentLen}

\* a gzip stream cut off after its header: NewReader takes it, ReadAll fails
CutStream == GzipHeader

\* "w": too short for a gzip header
NoStream == <<119>>

\* the contents of the files of the tables the model starts from
FileContents == Contents \cup {CutStream, NoStream} \cup {GzipWrite(c) : c \in Contents}

\* the byte strings that n passes of Compress or fewer make of the contents
RECURSIVE Layered(_)
Layered(n) ==
    IF n = 0 THEN FileContents
    ELSE Layered(n - 1) \cup {GzipWrite(r) : r \in Layered(n - 1)}

\* the contents the model lets Compress encode: MaxNest layers come of them
\* at most
Compressible == Layered(MaxNest - 1)

\* what gzip.Writer makes of each of them
GzipWritten == [raw \in Compressible |-> GzipWrite(raw)]

\* the value a table of values worked out before holds for x, or else
\* what it takes to work it out
Known(table, x, value) == IF x \in DOMAIN table THEN table[x] ELSE value

\* gzip.NewWriter(&b); Write(content); Close(): the bytes left in b
GzipEncode(raw) == Known(GzipWritten, raw, GzipWrite(raw))

\* what gzip.Reader makes of each of the contents a table can hold
GzipReadOf == [s \in Layered(MaxNest) |-> GzipRead(s)]

\* ioutil.ReadAll(compReader)
GzipDecode(s) == Known(GzipReadOf, s, GzipRead(s))

\* ioutil.ReadAll of the gzip reader met no error
GzipBodyOK(s) == GzipDecode(s).ok

\* the bytes ioutil.ReadAll of the gzip reader returns
GzipBody(s) == GzipDecode(s).data

-----------------------------------------------------------------------------
(* Errors.                                                                 *)

NoErr == [kind |-> "nil", op |-> "", path |-> <<>>]
\* &os.PathError{"open", name, errors.New("File does not exist in binclude map")}
PathError(op, name) == [kind |-> "File does not exist in binclude map", op |-> op, path |-> name]
EOF == [kind |-> "EOF", op |-> "", path |-> <<>>]
GzipErr == [kind |-> "Gzip err", op |-> "", path |-> <<>>]
ReaderErr == [kind |-> "Reader err", op |-> "", path |-> <<>>]
SeekErr == [kind |-> "bytes.Reader.Seek", op |-> "", path |-> <<>>]
\* a method called through a nil interface value
Panic == [kind |-> "panic", op |-> "", path |-> <<>>]
\* the error of a failed call of the os package
HostErr(op, name) == [kind |-> "host", op |-> op, path |-> name]

-----------------------------------------------------------------------------
(* bytes.Reader, the cursor bound by Open.                                 *)

\* f.reader = nil
NilReader == [open |-> FALSE, s |-> <<>>, i |-> 0]

\* bytes.NewReader(b)
NewReader(b) == [open |-> TRUE, s |-> b, i |-> 0]

\* (*bytes.Reader).Read with a buffer of n bytes
ReaderRead(r, n) ==
    IF r.i >= Len(r.s) THEN [r |-> r, data |-> <<>>, err |-> EOF]
    ELSE LET cnt == Min(n, Len(r.s) - r.i)
         IN [r |-> [r EXCEPT !.i = r.i + cnt],
             data |-> SubSeq(r.s, r.i + 1, r.i + cnt),
             err |-> NoErr]

\* (*bytes.Reader).Seek
ReaderSeek(r, offset, whence) ==
    IF whence \notin {0, 1, 2} THEN [r |-> r, abs |-> 0, err |-> SeekErr]
    ELSE LET abs == IF whence = 0 THEN offset
                    ELSE IF whence = 1 THEN r.i + offset
                    ELSE Len(r.s) + offset
         IN IF abs < 0 THEN [r |-> r, abs |-> 0, err |-> SeekErr]
            ELSE [r |-> [r EXCEPT !.i = abs], abs |-> abs, err |-> NoErr]

\* bytes.MinRead: the capacity of the buffer ioutil.ReadAll starts with
MinRead == 512

\* the size classes of the allocator of the runtime, up to 32768 bytes
SizeClasses ==
    <<8, 16, 24, 32, 48, 64, 80, 96, 112, 128, 144, 160, 176, 192, 208, 224, 240, 256,
      288, 320, 352, 384, 416, 448, 480, 512, 576, 640, 704, 768, 896, 1024, 1152,
      1280, 1408, 1536, 1792, 2048, 2304, 2688, 3072, 3200, 3456, 4096, 4864, 5120,
      5376, 6144, 6528, 6784, 6912, 8192, 9472, 9728, 10240, 10880, 12288, 13568,
      14336, 16384, 18432, 19072, 20480, 21760, 24576, 27264, 28672, 32768>>

\* the bytes the allocator hands out for n: the least size class that holds
\* them, whole pages of 8192 bytes above the classes
RoundUpSize(n) ==
    IF n <= 32768
    THEN SizeClasses[CHOOSE i \in 1..Len(SizeClasses) :
                        /\ SizeClasses[i] >= n
                        /\ i = 1 \/ SizeClasses[i - 1] < n]
    ELSE ((n + 8191) \div 8192) * 8192

\* the capacity append(b, 0) gives a full byte slice of capacity c, for the
\* capacities of 256 and more that the buffer of ReadAll has: a quarter of
\* c + 768 more, rounded up to what the allocator hands out
AppendCap(c) == RoundUpSize(c + (c + 768) \div 4)

\* the capacity of the buffer of ReadAll when it holds n bytes: the first
\* of MinRead, AppendCap(MinRead), ... above n, since a full buffer grows
\* before the next Read
RECURSIVE CapAbove(_, _)
CapAbove(c, n) == IF n < c THEN c ELSE CapAbove(AppendCap(c), n)

\* the room ioutil.ReadAll offers to Read when it holds n bytes: the spare
\* capacity of its buffer
ReadAllRoom(n) == CapAbove(MinRead, n) - n

\* ioutil.ReadAll: Read chunk after chunk; EOF ends the loop and is not reported
RECURSIVE ReadAllFrom(_, _)
ReadAllFrom(r, acc) ==
    LET res == ReaderRead(r, ReadAllRoom(Len(acc)))
    IN IF res.err = EOF THEN [r |-> res.r, data |-> acc, err |-> NoErr]
       ELSE ReadAllFrom(res.r, acc \o res.data)

ReadAll(r) == ReadAllFrom(r, <<>>)

-----------------------------------------------------------------------------
(* BincludeFile and FileInfo.                                              *)

\* an os.FileMode: the ModeDir type bit (bit 31) and the permission bits
FileMode(dir, perm) == [ModeDir |-> dir, Perm |-> perm]

\* os.FileMode.IsDir
IsDir(mode) == mode.ModeDir

\* a table entry as the generated literal builds it: no cursor, path or fs yet
BincludeFile(filename, mode, modtime, content) ==
    [Filename |-> filename, Mode |-> mode, ModTime |-> modtime,
     Content |-> content, Compression |-> None,
     reader |-> NilReader, path |-> <<>>, fs |-> FALSE]

\* BincludeFile.Size
Size(f) == Len(f.Content)

\* BincludeFile.Stat: the FileInfo of an entry
FileStat(f) ==
    [name |-> f.Filename, mode |-> f.Mode, size |-> Size(f), modtime |-> f.ModTime]

\* BincludeFile.Name
Name(f) == f.path

\* OpenFile with the bug of keeping a cursor that is already bound
OpenFileKeepsCursor(f, name) ==
    [f EXCEPT !.reader = IF f.reader.open THEN f.reader ELSE NewReader(f.Content),
              !.path = name, !.fs = TRUE]

\* the hit branch of FileSystem.Open: bind a cursor, stamp path and table
OpenFile(f, name) ==
    [f EXCEPT !.reader = NewReader(f.Content), !.path = name, !.fs = TRUE]

\* Close with the bug of leaving the cursor bound
CloseFileKeepsCursor(f) == f

\* BincludeFile.Close
CloseFile(f) == [f EXCEPT !.reader = NilReader]

\* FsOpen with the bug of building the error before the name is normalized
FsOpenRawName(fs, name0) ==
    LET name == TrimPrefix(name0, DotSlash)
    IN IF name \in DOMAIN fs
       THEN [files |-> [fs EXCEPT ![name] = OpenFile(fs[name], name)],
             ok |-> TRUE, handle |-> name, err |-> NoErr]
       ELSE [files |-> fs, ok |-> FALSE, handle |-> <<>>,
             err |-> PathError("open", name0)]

\* FileSystem.Open with Debug off: the table after the call, the handle, the error
FsOpen(fs, name0) ==
    LET name == TrimPrefix(name0, DotSlash)
    IN IF name \in DOMAIN fs
       THEN [files |-> [fs EXCEPT ![name] = OpenFile(fs[name], name)],
             ok |-> TRUE, handle |-> name, err |-> NoErr]
       ELSE [files |-> fs, ok |-> FALSE, handle |-> <<>>,
             err |-> PathError("open", name)]

\* the directory a handle lists: its own path if directory-typed, else its parent
ReaddirRoot(f) == IF IsDir(f.Mode) THEN Name(f) ELSE Dir(f.path)

\* ReaddirMatches with the bug of matching every path below the root
ReaddirMatchesBelow(fs, f) ==
    {path \in DOMAIN fs : HasPrefix(path, ReaddirRoot(f) \o SlashStr)}

\* the keys whose entries BincludeFile.Readdir reports for a handle
ReaddirMatches(fs, f) == {path \in DOMAIN fs : Dir(path) = ReaddirRoot(f)}

\* BincludeFile.Readdir when the range over f.fs.Files meets the matching
\* keys in the order `order`: one Stat result per matching key
ReaddirInfos(fs, order) == [i \in 1..Len(order) |-> FileStat(fs[order[i]])]

-----------------------------------------------------------------------------
(* Sorting.                                                                *)

\* insert a string into an ascending list
RECURSIVE InsertString(_, _)
InsertString(x, sorted) ==
    IF sorted = <<>> THEN <<x>>
    ELSE IF StrLess(Head(sorted), x) THEN <<Head(sorted)>> \o InsertString(x, Tail(sorted))
    ELSE <<x>> \o sorted

\* SortStrings with the bug of leaving the paths as the range met them
SortStringsSkipped(paths) == paths

\* sort.Strings
RECURSIVE SortStrings(_)
SortStrings(paths) ==
    IF paths = <<>> THEN <<>> ELSE InsertString(Head(paths), SortStrings(Tail(paths)))

\* SortSlice with the bug of leaving the list as Readdir returned it
SortSliceSkipped(list) == {list}

\* the lists sort.Slice may leave for the less function of ReadDir: it is not
\* a stable sort, so every rearrangement in which no later Name is less than an
\* earlier one is a possible outcome
SortSlice(list) ==
    LET n == Len(list)
        arr == {[i \in 1..n |-> list[p[i]]] : p \in Perms(1..n)}
    IN {l \in arr : \A i, j \in 1..n : i < j => ~ StrLess(l[j].name, l[i].name)}

-----------------------------------------------------------------------------
(* Whole-table passes and the serializer.                                  *)

\* CompressFile with the bug of renaming what it encodes, as gzip(1) does
CompressFileRenames(file, algo) ==
    IF IsDir(file.Mode) \/ ~ shouldCompress(file.Filename)
    THEN [file |-> file, err |-> NoErr]
    ELSE IF algo # Gzip THEN [file |-> file, err |-> Panic]
    ELSE [file |-> [file EXCEPT !.Compression = algo,
                                !.Content = GzipEncode(file.Content),
                                !.Filename = file.Filename \o <<46, 103, 122>>],
          err |-> NoErr]

\* the body of the loop of FileSystem.Compress for one entry.  Only Gzip
\* makes a writer: with any other algorithm writer is nil and the call of
\* writer.Write panics, before anything is assigned
CompressFile(file, algo) ==
    IF IsDir(file.Mode) \/ ~ shouldCompress(file.Filename)
    THEN [file |-> file, err |-> NoErr]
    ELSE IF algo # Gzip THEN [file |-> file, err |-> Panic]
    ELSE [file |-> [file EXCEPT !.Compression = algo,
                                !.Content = GzipEncode(file.Content)],
          err |-> NoErr]

\* what the loop of FileSystem.Compress leaves of the table, given what its
\* body makes of every entry: a panic at the first entry that is to be
\* encoded leaves the entries the range met before it, which were skipped
PassOver(fs, done) ==
    IF \E k \in DOMAIN fs : done[k].err # NoErr
    THEN [files |-> fs, err |-> Panic]
    ELSE [files |-> [k \in DOMAIN fs |-> done[k].file], err |-> NoErr]

\* CompressPass with the bug of lacking the early return for None, and a
\* writer for every algorithm
CompressPassNoReturn(fs, algo) ==
    PassOver(fs, [k \in DOMAIN fs |->
                     IF IsDir(fs[k].Mode) \/ ~ shouldCompress(fs[k].Filename)
                     THEN [file |-> fs[k], err |-> NoErr]
                     ELSE [file |-> [fs[k] EXCEPT !.Compression = algo,
                                                  !.Content = GzipEncode(fs[k].Content)],
                           err |-> NoErr]])

\* FileSystem.Compress: writing to a bytes.Buffer cannot fail, so the pass
\* reaches every entry whatever the order of the range
CompressPass(fs, algo) ==
    IF algo = None THEN [files |-> fs, err |-> NoErr]
    ELSE PassOver(fs, [k \in DOMAIN fs |-> CompressFile(fs[k], algo)])

\* StoreContent with the bug of dropping the assignment
StoreContentDropped(file, content) == file

\* the assignment that ends the loop body of FileSystem.Decompress
StoreContent(file, content) == [file EXCEPT !.Content = content]

RECURSIVE DecompressFrom(_, _, _)

\* the loop body of FileSystem.Decompress from gzip.NewReader on, for the
\* stream read from the i-th entry and what the reader makes of it
DecompressStream(closed, order, i, stream, read) ==
    IF ~ GzipHeaderOK(stream) THEN [files |-> closed, err |-> GzipErr, opened |-> TRUE]
    ELSE IF ~ read.ok THEN [files |-> closed, err |-> ReaderErr, opened |-> TRUE]
    ELSE DecompressFrom([closed EXCEPT ![order[i]] = StoreContent(@, read.data)],
                        order, i + 1)

\* FileSystem.Decompress from the i-th of the compressed keys the range meets
\* (it skips the others, in whatever order it meets them); the deferred
\* Close calls find every handle of the pass already closed, except the one
\* of the entry whose stream fails.  Only the tag Gzip makes a reader: with
\* any other tag compReader is nil and ioutil.ReadAll panics.  opened tells
\* whether every Open of the pass returned a handle
DecompressFrom(fs, order, i) ==
    IF i > Len(order) THEN [files |-> fs, err |-> NoErr, opened |-> TRUE]
    ELSE LET path == order[i]
             file == fs[path]
         IN IF file.Compression = None THEN DecompressFrom(fs, order, i + 1)
            ELSE LET o == FsOpen(fs, path)
                 IN IF ~ o.ok THEN [files |-> fs, err |-> Panic, opened |-> FALSE]
                    ELSE LET f == o.files[o.handle]
                             stream == ReadAll(f.reader).data
                             closed == [o.files EXCEPT ![o.handle] = CloseFile(f)]
                         IN IF file.Compression # Gzip
                            THEN [files |-> closed, err |-> Panic, opened |-> TRUE]
                            ELSE DecompressStream(closed, order, i, stream,
                                                  GzipDecode(stream))

\* what a pass that undoes what it decoded when an entry fails makes of
\* the outcome d
RolledBack(fs, d) ==
    IF d.err = NoErr THEN d
    ELSE [files |-> [k \in DOMAIN fs |-> [d.files[k] EXCEPT !.Content = fs[k].Content]],
          err |-> d.err, opened |-> d.opened]

\* Decompress with the bug of undoing what it decoded when an entry fails
DecompressPassRollsBack(fs, order) == RolledBack(fs, DecompressFrom(fs, order, 1))

\* Decompress with the bug of returning nil from the entry that fails
DecompressPassSwallows(fs, order) == [DecompressFrom(fs, order, 1) EXCEPT !.err = NoErr]

\* FileSystem.Decompress when the range meets the compressed keys in order
DecompressPass(fs, order) == DecompressFrom(fs, order, 1)

-----------------------------------------------------------------------------
(* The host filesystem and CopyFile.                                       *)

NoHostFile == [exists |-> FALSE, data |-> <<>>, perm |-> 0]

HostFile(data, perm) == [exists |-> TRUE, data |-> data, perm |-> perm]

\* a successful os.OpenFile(name, O_WRONLY|O_CREATE|O_TRUNC, perm): an
\* existing file is emptied and keeps its mode, a missing one is created
\* with perm (the umask is taken to be 0)
OsOpenFile(hst, name, perm) ==
    [hst EXCEPT ![name] = IF @.exists THEN HostFile(<<>>, @.perm)
                          ELSE HostFile(<<>>, perm)]

\* os.PathSeparator of the build
Separator == 47

\* filepath.FromSlash: every slash becomes the separator of the host
FromSlash(path) == [i \in 1..Len(path) |-> IF path[i] = 47 THEN Separator ELSE path[i]]

\* the walk of the kernel over the elements of a name, from the working
\* directory on.  The host of the model is that one directory, and the
\* files of hst that exist are all it holds.  at is "dir" in the directory,
\* "file" on the regular file key, "none" behind an element that is missing
\* (ENOENT) or that leads on from a regular file (ENOTDIR: also an empty
\* element or "." behind a file), "out" behind ".." in the directory
RECURSIVE HostWalk(_, _, _)
HostWalk(hst, elems, w) ==
    IF elems = <<>> \/ w.at \in {"none", "out"} THEN w
    ELSE LET e == Head(elems)
         IN IF w.at = "file" THEN [at |-> "none", key |-> <<>>]
            ELSE IF e = <<>> \/ e = DotStr THEN HostWalk(hst, Tail(elems), w)
            ELSE IF e = DotDotStr THEN [at |-> "out", key |-> <<>>]
            ELSE IF e \in DOMAIN hst /\ hst[e].exists
                 THEN HostWalk(hst, Tail(elems), [at |-> "file", key |-> e])
            ELSE [at |-> "none", key |-> <<>>]

\* the file os.Open finds at a name on the host, NoHostFile when the walk
\* fails; the empty name is no file.  The model follows neither a rooted
\* name, nor one that leaves the working directory, nor the directory
\* itself opened as a file: HostLookup has no value for these
HostLookup(hst, name) ==
    LET w == IF name = <<>> THEN [at |-> "none", key |-> <<>>]
             ELSE IF IsPathSeparator(name[1]) THEN [at |-> "out", key |-> <<>>]
             ELSE HostWalk(hst, Split(name), [at |-> "dir", key |-> <<>>])
    IN CASE w.at = "file" -> hst[w.key]
         [] w.at = "none" -> NoHostFile

\* the Debug branch of FileSystem.Open: os.Open of the name on the host.
\* The handle is an *os.File (a nil one next to an error), never an entry;
\* path is the host path it reads (the name without the empty and "."
\* elements before the file), data and perm what the file holds now
FsOpenDebug(hst, name0) ==
    LET name == FromSlash(name0)
        f == HostLookup(hst, name)
    IN IF f.exists
       THEN [ok |-> TRUE, data |-> f.data, path |-> Clean(name), perm |-> f.perm,
             err |-> NoErr]
       ELSE [ok |-> FALSE, data |-> <<>>, path |-> <<>>, perm |-> 0,
             err |-> HostErr("open", name)]

\* (*os.File).Stat of the regular file that os.Open(name) returned; the
\* model keeps no clock for the host, so the FileInfo has no ModTime
HostStat(hst, name) ==
    [name |-> Base(Clean(name)), mode |-> FileMode(FALSE, HostLookup(hst, name).perm),
     size |-> Len(HostLookup(hst, name).data)]

\* no CopyFile is under way.  pc is the place of the call in CopyFile, src
\* the key of the entry it opened (the host path with Debug on), off the
\* offset of the *os.File it reads with Debug on, perm the mode for the
\* destination, buf what io.Copy has read and not yet written, before the
\* table and the host as the call found them
NoCopy ==
    [pc |-> "idle", name |-> <<>>, hostPath |-> <<>>, debug |-> FALSE, src |-> <<>>,
     off |-> 0, perm |-> 0, buf |-> <<>>, before |-> <<>>]

\* the buffer of io.Copy
CopyBuf == 32768

\* FsCopyFileOpen with the bug of creating the destination before opening
\* the source
FsCopyFileOpenCreatesFirst(fs, hst, debug, embeddedPath, hostPath) ==
    LET o == FsOpen(fs, embeddedPath)
    IN [files |-> o.files, host |-> OsOpenFile(hst, hostPath, 420),
        ok |-> o.ok, err |-> o.err,
        copy |-> [NoCopy EXCEPT !.pc = "OpenFile", !.name = embeddedPath,
                                !.hostPath = hostPath, !.src = o.handle,
                                !.perm = IF o.ok THEN FileStat(o.files[o.handle]).mode.Perm
                                         ELSE 0,
                                !.before = [table |-> fs, host |-> hst]]]

\* FileSystem.CopyFile up to its first call of the os package: fs.Open and
\* the Stat of the handle.  With Debug on the source is a file of the host
FsCopyFileOpen(fs, hst, debug, embeddedPath, hostPath) ==
    IF debug
    THEN LET o == FsOpenDebug(hst, embeddedPath)
         IN [files |-> fs, host |-> hst, ok |-> o.ok, err |-> o.err,
             copy |-> [NoCopy EXCEPT !.pc = "OpenFile", !.name = embeddedPath,
                                     !.hostPath = hostPath, !.debug = TRUE,
                                     !.src = o.path, !.perm = o.perm,
                                     !.before = [table |-> fs, host |-> hst]]]
    ELSE LET o == FsOpen(fs, embeddedPath)
         IN [files |-> o.files, host |-> hst, ok |-> o.ok, err |-> o.err,
             copy |-> [NoCopy EXCEPT !.pc = "OpenFile", !.name = embeddedPath,
                                     !.hostPath = hostPath, !.src = o.handle,
                                     !.perm = IF o.ok
                                              THEN FileStat(o.files[o.handle]).mode.Perm
                                              ELSE 0,
                                     !.before = [table |-> fs, host |-> hst]]]

\* os.OpenFile(hostPath, O_WRONLY|O_CREATE|O_TRUNC, info.Mode().Perm()) of
\* CopyFile; fail tells that the host returns an error
FsCopyFileCreate(hst, copy, fail) ==
    IF fail THEN hst ELSE OsOpenFile(hst, copy.hostPath, copy.perm)

\* one src.Read of io.Copy: from the cursor of the entry, or with Debug on
\* from the file of the host at the offset of the handle.  A Read through
\* an entry whose cursor is nil panics
FsCopyFileRead(fs, hst, copy) ==
    IF copy.debug
    THEN LET data == hst[copy.src].data
             cnt == Min(CopyBuf, Len(data) - copy.off)
         IN IF copy.off >= Len(data)
            THEN [files |-> fs, copy |-> [copy EXCEPT !.pc = "Stat"], err |-> NoErr]
            ELSE [files |-> fs,
                  copy |-> [copy EXCEPT !.pc = "Write", !.off = copy.off + cnt,
                                        !.buf = SubSeq(data, copy.off + 1, copy.off + cnt)],
                  err |-> NoErr]
    ELSE IF ~ fs[copy.src].reader.open THEN [files |-> fs, copy |-> copy, err |-> Panic]
    ELSE LET res == ReaderRead(fs[copy.src].reader, CopyBuf)
         IN IF res.err = EOF
            THEN [files |-> fs, copy |-> [copy EXCEPT !.pc = "Stat"], err |-> NoErr]
            ELSE [files |-> [fs EXCEPT ![copy.src].reader = res.r],
                  copy |-> [copy EXCEPT !.pc = "Write", !.buf = res.data],
                  err |-> NoErr]

\* one dst.Write of io.Copy: the host takes the first n bytes of the buffer
FsCopyFileWrite(hst, copy, n) ==
    [hst EXCEPT ![copy.hostPath].data = @ \o SubSeq(copy.buf, 1, n)]

\* the deferred src.Close() of CopyFile; closing an *os.File changes nothing
\* the model follows
FsCopyFileClose(fs, copy) ==
    IF copy.debug THEN fs ELSE [fs EXCEPT ![copy.src] = CloseFile(@)]

\* no Decompress with Debug on is under way.  order is the order in which
\* the range meets the compressed keys, i the place of the pass in it,
\* before the table as the call found it
NoPass == [active |-> FALSE, order |-> <<>>, i |-> 0, before |-> <<>>]

\* the loop body of FileSystem.Decompress with Debug on from
\* gzip.NewReader on, for the bytes of the host file and what the reader
\* makes of them
DecompressDebugStream(fs, path, data, read) ==
    IF ~ GzipHeaderOK(data) THEN [files |-> fs, err |-> GzipErr, opened |-> TRUE]
    ELSE IF ~ read.ok THEN [files |-> fs, err |-> ReaderErr, opened |-> TRUE]
    ELSE [files |-> [fs EXCEPT ![path] = StoreContent(@, read.data)],
          err |-> NoErr, opened |-> TRUE]

\* the body of the loop of FileSystem.Decompress for the entry at path with
\* Debug on: the error of Open is dropped, reading the nil *os.File of a
\* failed Open fails in gzip.NewReader, and the bytes decoded are those of
\* the host file.  With a tag other than Gzip compReader is nil and
\* ioutil.ReadAll panics.  opened tells whether Open returned a file
DecompressDebugEntry(fs, hst, path) ==
    LET o == FsOpenDebug(hst, path)
    IN IF fs[path].Compression # Gzip THEN [files |-> fs, err |-> Panic, opened |-> o.ok]
       ELSE IF ~ o.ok THEN [files |-> fs, err |-> GzipErr, opened |-> FALSE]
       ELSE DecompressDebugStream(fs, path, o.data, GzipDecode(o.data))

\* BincludeFile.timeString: the arguments of the time.Unix expression
timeString(f) == <<f.ModTime, f.ModTime * 1000000000>>

\* BincludeFile.GoString: the fields of the literal of one entry
FileGoString(f) ==
    [Filename |-> f.Filename, Mode |-> f.Mode, ModTime |-> timeString(f),
     Compression |-> CompressionGoString(f.Compression), Content |-> f.Content]

\* FileSystem.GoString when the range over fs.Files visits the keys in
\* `order`: the records written between the opening and the closing line
GoStringRecords(fs, order) ==
    LET paths == SortStrings(order)
    IN [i \in 1..Len(paths) |-> [path |-> paths[i], file |-> FileGoString(fs[paths[i]])]]

-----------------------------------------------------------------------------
(* The tables the program starts with, and the arguments of its callers.   *)

\* "a.txt"
PathA == <<97, 46, 116, 120, 116>>
\* "dir"
PathDir == <<100, 105, 114>>
\* "dir/b.gz"
PathB == <<100, 105, 114, 47, 98, 46, 103, 122>>
\* "dir/c"
PathC == <<100, 105, 114, 47, 99>>
\* "dir/sub/e"
PathE == <<100, 105, 114, 47, 115, 117, 98, 47, 101>>
\* "missing.txt"
PathMissing == <<109, 105, 115, 115, 105, 110, 103, 46, 116, 120, 116>>

\* "out"
HostOut == <<111, 117, 116>>

\* the paths of the host filesystem the model follows
HostPaths == {HostOut, PathA}

\* the key sets of the tables the model starts from
KeySets ==
    { {PathA, PathDir, PathB, PathE},
      {PathA, PathDir, PathB, PathC} }

Directories == {PathDir}

\* the table a generator run leaves for a set of paths: Filename is the
\* base name of the key, directories have the directory bit and no content
MakeTable(keys, payload) ==
    [k \in keys |->
        IF k \in Directories
        THEN BincludeFile(Base(k), FileMode(TRUE, 493), 1, <<>>)
        ELSE BincludeFile(Base(k), FileMode(FALSE, 420), 2,
                          IF k = PathA THEN payload
                          ELSE IF k = PathC THEN CutStream
                          ELSE NoStream)]

\* the names callers pass to the FileSystem
Names == {PathA, DotSlash \o PathA, PathDir, PathMissing, DotSlash \o PathMissing}

Algos == {None, Gzip}

\* the <<offset, whence>> pairs callers pass to Seek: 0 start, 1 current,
\* 2 end, 3 not a reference point
SeekArgs == {<<0, 0>>, <<1, 0>>, <<-1, 0>>, <<1, 1>>, <<-1, 1>>, <<0, 2>>, <<-1, 2>>, <<0, 3>>}

\* the count arguments callers pass to Readdir
Counts == {-1, 0, 1}

-----------------------------------------------------------------------------
(* State.                                                                  *)

\* the exported fields of every entry
Persist(fs) ==
    [k \in DOMAIN fs |->
        [Filename |-> fs[k].Filename, Mode |-> fs[k].Mode, ModTime |-> fs[k].ModTime,
         Content |-> fs[k].Content, Compression |-> fs[k].Compression]]

\* the record of a call, before its arguments and results are filled in;
\* bound tells whether the handle's cursor was bound when Close was called,
\* order is the order in which a pass ranged over the map
Call(op) ==
    [op |-> op, name |-> <<>>, algo |-> None, err |-> NoErr, ok |-> FALSE,
     handle |-> <<>>, data |-> <<>>, infos |-> <<>>, n |-> 0, text |-> <<>>,
     bound |-> FALSE, order |-> <<>>, hostPath |-> <<>>]

NoDirSeen == [name |-> <<>>, lists |-> {}, calls |-> 0]

NoGoSeen == [texts |-> {}, calls |-> 0]

Idle == [stage |-> "idle", pre |-> <<>>]

\* a Compress(Gzip) still waiting for its Decompress survives other calls
KeepTrip == IF roundTrip.stage = "compressed" THEN roundTrip ELSE Idle

\* no handle is followed
NoSession == [open |-> FALSE, key |-> <<>>, pos |-> 0]

\* the callers that run ReadFile side by side
Callers == {1, 2}

\* a caller before its ReadFile: pc is its place in ReadFile, f the handle
\* Open returned to it, acc the bytes ioutil.ReadAll has gathered, err the
\* error or panic it met
IdleCaller == [pc |-> "idle", f |-> <<>>, acc |-> <<>>, err |-> NoErr]

Init ==
    /\ \E keys \in KeySets, payload \in Contents : files = MakeTable(keys, payload)
    /\ held = {}
    /\ last = Call("init")
    /\ prev = Persist(files)
    /\ orig = Persist(files)
    /\ roundTrip = Idle
    /\ dirSeen = NoDirSeen
    /\ goSeen = NoGoSeen
    /\ Debug = FALSE
    /\ host = [p \in HostPaths |-> NoHostFile]
    /\ session = NoSession
    /\ callers = [c \in Callers |-> IdleCaller]
    /\ copying = NoCopy
    /\ passing = NoPass

\* dirSeen follows a run of ReadDir calls of one path and goSeen a run of
\* GoString calls; any other call ends the run
EndRuns ==
    /\ dirSeen' = NoDirSeen
    /\ goSeen' = NoGoSeen

\* what every call that leaves Content and Compression alone does to the history
ReadOnly ==
    /\ prev' = Persist(files)
    /\ roundTrip' = KeepTrip
    /\ UNCHANGED orig

\* FileSystem.Open
Open(name) ==
    LET o == FsOpen(files, name)
    IN /\ files' = o.files
       /\ held' = IF o.ok THEN held \cup {o.handle} ELSE held
       /\ last' = [Call("Open") EXCEPT !.name = name, !.err = o.err,
                                       !.ok = o.ok, !.handle = o.handle]
       /\ ReadOnly
       /\ EndRuns

\* BincludeFile.Read on a handle a caller holds
Read(h, n) ==
    /\ h \in held
    /\ IF ~ files[h].reader.open
       THEN /\ last' = [Call("Read") EXCEPT !.handle = h, !.n = n, !.err = Panic]
            /\ UNCHANGED files
       ELSE LET res == ReaderRead(files[h].reader, n)
            IN /\ files' = [files EXCEPT ![h].reader = res.r]
               /\ last' = [Call("Read") EXCEPT !.handle = h, !.n = Len(res.data),
                                               !.data = res.data, !.err = res.err]
    /\ ReadOnly
    /\ EndRuns
    /\ UNCHANGED held

\* BincludeFile.Seek on a handle a caller holds
Seek(h, offset, whence) ==
    /\ h \in held
    /\ IF ~ files[h].reader.open
       THEN /\ last' = [Call("Seek") EXCEPT !.handle = h, !.err = Panic]
            /\ UNCHANGED files
       ELSE LET res == ReaderSeek(files[h].reader, offset, whence)
            IN /\ res.r.i <= Len(res.r.s) + MaxSeekPast
               /\ files' = [files EXCEPT ![h].reader = res.r]
               /\ last' = [Call("Seek") EXCEPT !.handle = h, !.n = res.abs,
                                               !.err = res.err]
    /\ ReadOnly
    /\ EndRuns
    /\ UNCHANGED held

\* BincludeFile.Close on a handle a caller holds
Close(h) ==
    /\ h \in held
    /\ files' = [files EXCEPT ![h] = CloseFile(files[h])]
    /\ last' = [Call("Close") EXCEPT !.handle = h, !.bound = files[h].reader.open]
    /\ ReadOnly
    /\ EndRuns
    /\ UNCHANGED held

\* BincludeFile.Stat on a handle a caller holds
StatFile(h) ==
    /\ h \in held
    /\ last' = [Call("File.Stat") EXCEPT !.handle = h, !.infos = <<FileStat(files[h])>>]
    /\ ReadOnly
    /\ EndRuns
    /\ UNCHANGED <<files, held>>

\* Readdir with the bug of honouring a positive count, as os.File.Readdir does
ReaddirHonorsCount(h, count) ==
    /\ h \in held
    /\ \E order \in Perms(ReaddirMatches(files, files[h])) :
          LET infos == ReaddirInfos(files, order)
          IN last' = [Call("Readdir") EXCEPT
                         !.handle = h, !.n = count,
                         !.infos = IF count > 0
                                   THEN SubSeq(infos, 1, Min(count, Len(infos)))
                                   ELSE infos]
    /\ ReadOnly
    /\ EndRuns
    /\ UNCHANGED <<files, held>>

\* BincludeFile.Readdir on a handle a caller holds
Readdir(h, count) ==
    /\ h \in held
    /\ \E order \in Perms(ReaddirMatches(files, files[h])) :
          last' = [Call("Readdir") EXCEPT !.handle = h, !.n = count,
                                          !.infos = ReaddirInfos(files, order)]
    /\ ReadOnly
    /\ EndRuns
    /\ UNCHANGED <<files, held>>

\* FileSystem.Stat
Stat(name) ==
    LET o == FsOpen(files, name)
    IN /\ IF ~ o.ok
          THEN /\ files' = o.files
               /\ last' = [Call("Stat") EXCEPT !.name = name, !.err = o.err]
          ELSE /\ files' = [o.files EXCEPT ![o.handle] = CloseFile(@)]
               /\ last' = [Call("Stat") EXCEPT !.name = name, !.ok = TRUE,
                                               !.infos = <<FileStat(o.files[o.handle])>>]
       /\ ReadOnly
       /\ EndRuns
    /\ UNCHANGED held

\* FileSystem.ReadFile
ReadFile(name) ==
    LET o == FsOpen(files, name)
    IN /\ IF ~ o.ok
          THEN /\ files' = o.files
               /\ last' = [Call("ReadFile") EXCEPT !.name = name, !.err = o.err]
          ELSE LET all == ReadAll(o.files[o.handle].reader)
               IN /\ files' = [o.files EXCEPT ![o.handle] = CloseFile(@)]
                  /\ last' = [Call("ReadFile") EXCEPT !.name = name, !.ok = TRUE,
                                                      !.handle = o.handle,
                                                      !.data = all.data, !.err = all.err]
       /\ ReadOnly
       /\ EndRuns
    /\ UNCHANGED held

\* FileSystem.ReadDir
ReadDir(name) ==
    LET o == FsOpen(files, name)
    IN /\ IF ~ o.ok
          THEN /\ files' = o.files
               /\ last' = [Call("ReadDir") EXCEPT !.name = name, !.err = o.err]
               /\ dirSeen' = NoDirSeen
          ELSE /\ files' = [o.files EXCEPT ![o.handle] = CloseFile(@)]
               /\ \E order \in Perms(ReaddirMatches(o.files, o.files[o.handle])) :
                    \E list \in SortSlice(ReaddirInfos(o.files, order)) :
                       /\ last' = [Call("ReadDir") EXCEPT !.name = name, !.ok = TRUE,
                                                          !.handle = o.handle,
                                                          !.infos = list]
                       /\ dirSeen' = IF dirSeen.name = name
                                      THEN [name |-> name,
                                            lists |-> dirSeen.lists \cup {list},
                                            calls |-> Min(dirSeen.calls + 1, 2)]
                                      ELSE [name |-> name, lists |-> {list}, calls |-> 1]
       /\ ReadOnly
       /\ goSeen' = NoGoSeen
       /\ UNCHANGED held

\* FileSystem.Compress; the model stops stacking gzip layers at MaxNest
Compress(algo) ==
    /\ algo = Gzip =>
          \A k \in DOMAIN files :
             ~ IsDir(files[k].Mode) /\ shouldCompress(files[k].Filename)
                => files[k].Content \in Compressible
    /\ \E c \in {CompressPass(files, algo)} :
          /\ files' = c.files
          /\ last' = [Call("Compress") EXCEPT !.algo = algo, !.err = c.err]
    /\ prev' = Persist(files)
    /\ roundTrip' = IF algo = None THEN KeepTrip
                    ELSE IF \A k \in DOMAIN files : files[k].Compression = None
                    THEN [stage |-> "compressed",
                          pre |-> [k \in DOMAIN files |-> files[k].Content]]
                    ELSE Idle
    /\ EndRuns
    /\ UNCHANGED <<held, orig>>

\* FileSystem.Decompress
Decompress ==
    \E order \in Perms({k \in DOMAIN files : files[k].Compression # None}) :
       \E d \in {DecompressPass(files, order)} :
          /\ files' = d.files
          /\ last' = [Call("Decompress") EXCEPT !.err = d.err, !.order = order,
                                                !.ok = d.opened]
          /\ prev' = Persist(files)
          /\ roundTrip' = IF roundTrip.stage = "compressed" /\ d.err = NoErr
                          THEN [roundTrip EXCEPT !.stage = "done"]
                          ELSE Idle
          /\ EndRuns
          /\ UNCHANGED <<held, orig>>

\* no call is waiting for the host
Quiet == copying.pc = "idle" /\ ~ passing.active

\* what a return of CopyFile does to the record of calls
CopyFileReturns(name, hostPath, ok, handle, err) ==
    /\ last' = [Call("CopyFile") EXCEPT !.name = name, !.hostPath = hostPath,
                                        !.ok = ok, !.handle = handle, !.err = err]
    /\ copying' = NoCopy
    /\ ReadOnly
    /\ EndRuns

\* what a step of CopyFile that does not return leaves alone
CopyFileGoesOn == UNCHANGED <<last, prev, orig, roundTrip, dirSeen, goSeen>>

\* FileSystem.CopyFile, the call: fs.Open and the Stat of the handle; a miss
\* returns at once
CopyFile(embeddedPath, hostPath) ==
    /\ Quiet
    /\ LET c == FsCopyFileOpen(files, host, Debug, embeddedPath, hostPath)
       IN /\ files' = c.files
          /\ host' = c.host
          /\ IF c.ok
             THEN copying' = c.copy /\ CopyFileGoesOn
             ELSE CopyFileReturns(embeddedPath, hostPath, FALSE, <<>>, c.err)
    /\ UNCHANGED <<held, Debug, session, callers, passing>>

\* FileSystem.CopyFile, os.OpenFile of the destination: it is created or
\* emptied, or the host refuses and CopyFile returns the error
CopyFileOpenFile(fail) ==
    /\ copying.pc = "OpenFile"
    /\ host' = FsCopyFileCreate(host, copying, fail)
    /\ IF fail
       THEN /\ files' = FsCopyFileClose(files, copying)
            /\ CopyFileReturns(copying.name, copying.hostPath, TRUE, copying.src,
                               HostErr("open", copying.hostPath))
       ELSE /\ copying' = [copying EXCEPT !.pc = "Read"]
            /\ CopyFileGoesOn
            /\ UNCHANGED files
    /\ UNCHANGED <<held, Debug, session, callers, passing>>

\* FileSystem.CopyFile, a Read of io.Copy from the source
CopyFileRead ==
    /\ copying.pc = "Read"
    /\ LET r == FsCopyFileRead(files, host, copying)
       IN IF r.err = Panic
          THEN /\ files' = FsCopyFileClose(r.files, copying)
               /\ CopyFileReturns(copying.name, copying.hostPath, TRUE, copying.src, Panic)
          ELSE /\ files' = r.files
               /\ copying' = r.copy
               /\ CopyFileGoesOn
    /\ UNCHANGED <<held, Debug, host, session, callers, passing>>

\* FileSystem.CopyFile, a Write of io.Copy to the destination: the host
\* takes the buffer, or n bytes of it and returns an error
CopyFileWrite(fail, n) ==
    /\ copying.pc = "Write"
    /\ IF fail THEN n < Len(copying.buf) ELSE n = Len(copying.buf)
    /\ host' = FsCopyFileWrite(host, copying, n)
    /\ IF fail
       THEN /\ files' = FsCopyFileClose(files, copying)
            /\ CopyFileReturns(copying.name, copying.hostPath, TRUE, copying.src,
                               HostErr("write", copying.hostPath))
       ELSE /\ copying' = [copying EXCEPT !.pc = "Read", !.buf = <<>>]
            /\ CopyFileGoesOn
            /\ UNCHANGED files
    /\ UNCHANGED <<held, Debug, session, callers, passing>>

\* FileSystem.CopyFile, os.Stat of the destination, the return and the
\* deferred Close of both files
CopyFileStat(fail) ==
    /\ copying.pc = "Stat"
    /\ files' = FsCopyFileClose(files, copying)
    /\ CopyFileReturns(copying.name, copying.hostPath, TRUE, copying.src,
                       IF fail THEN HostErr("stat", copying.hostPath) ELSE NoErr)
    /\ UNCHANGED <<held, Debug, host, session, callers, passing>>

\* an assignment to the package variable Debug
SetDebug(b) ==
    /\ Quiet
    /\ b # Debug
    /\ Debug' = b
    /\ UNCHANGED <<files, held, last, prev, orig, roundTrip, dirSeen, goSeen, host, clients>>

\* FileSystem.Open with Debug on
OpenDebug(name) ==
    /\ Debug
    /\ Quiet
    /\ LET o == FsOpenDebug(host, name)
       IN last' = [Call("Open") EXCEPT !.name = name, !.err = o.err, !.ok = o.ok,
                                       !.data = o.data]
    /\ ReadOnly
    /\ EndRuns
    /\ UNCHANGED <<files, held, Debug, host, clients>>

\* FileSystem.Stat with Debug on: the FileInfo of the file of the host
StatDebug(name) ==
    /\ Debug
    /\ Quiet
    /\ LET o == FsOpenDebug(host, name)
       IN last' = [Call("Stat") EXCEPT !.name = name, !.err = o.err, !.ok = o.ok,
                                       !.infos = IF o.ok THEN <<HostStat(host, name)>>
                                                 ELSE <<>>]
    /\ ReadOnly
    /\ EndRuns
    /\ UNCHANGED <<files, held, Debug, host, clients>>

\* FileSystem.ReadFile with Debug on: the bytes of the file of the host
ReadFileDebug(name) ==
    /\ Debug
    /\ Quiet
    /\ LET o == FsOpenDebug(host, name)
       IN last' = [Call("ReadFile") EXCEPT !.name = name, !.err = o.err, !.ok = o.ok,
                                           !.data = o.data]
    /\ ReadOnly
    /\ EndRuns
    /\ UNCHANGED <<files, held, Debug, host, clients>>

\* FileSystem.ReadDir with Debug on.  The paths of the host the model
\* follows are regular files: Readdir of one returns no entries and an
\* error that ReadDir drops
ReadDirDebug(name) ==
    /\ Debug
    /\ Quiet
    /\ LET o == FsOpenDebug(host, name)
       IN last' = [Call("ReadDir") EXCEPT !.name = name, !.err = o.err, !.ok = o.ok]
    /\ ReadOnly
    /\ EndRuns
    /\ UNCHANGED <<files, held, Debug, host, clients>>

\* what a return of Decompress with Debug on does to the record of calls
DecompressDebugReturns(before, order, err, opened) ==
    /\ last' = [Call("Decompress") EXCEPT !.err = err, !.order = order, !.ok = opened]
    /\ passing' = NoPass
    /\ prev' = Persist(before)
    /\ roundTrip' = Idle
    /\ EndRuns
    /\ UNCHANGED orig

\* FileSystem.Decompress with Debug on, the call: the range fixes its order;
\* with no compressed entry the call returns at once
DecompressDebug ==
    /\ Debug
    /\ Quiet
    /\ \E order \in Perms({k \in DOMAIN files : files[k].Compression # None}) :
          IF order = <<>>
          THEN DecompressDebugReturns(files, order, NoErr, TRUE)
          ELSE /\ passing' = [active |-> TRUE, order |-> order, i |-> 1, before |-> files]
               /\ UNCHANGED <<last, prev, orig, roundTrip, dirSeen, goSeen>>
    /\ UNCHANGED <<files, held, Debug, host, session, callers, copying>>

\* FileSystem.Decompress with Debug on, one round of the loop: the file of
\* the host is opened and read, and what it decodes to is stored; the call
\* returns at the first error and after the last entry
DecompressDebugNext ==
    /\ passing.active
    /\ \E d \in {DecompressDebugEntry(files, host, passing.order[passing.i])} :
          /\ files' = d.files
          /\ IF d.err # NoErr \/ passing.i = Len(passing.order)
             THEN DecompressDebugReturns(passing.before, passing.order, d.err, d.opened)
             ELSE /\ passing' = [passing EXCEPT !.i = passing.i + 1]
                  /\ UNCHANGED <<last, prev, orig, roundTrip, dirSeen, goSeen>>
    /\ UNCHANGED <<held, Debug, host, session, callers, copying>>

\* the holder's Open: the handle it returns is the one followed from now on
HolderOpen(name) ==
    /\ Open(name)
    /\ session' = IF FsOpen(files, name).ok
                  THEN [open |-> TRUE, key |-> FsOpen(files, name).handle, pos |-> 0]
                  ELSE session
    /\ UNCHANGED <<outside, callers, pending>>

\* the holder's Read on its handle
HolderRead(n) ==
    /\ session.open
    /\ Read(session.key, n)
    /\ session' = IF files'[session.key].reader.open
                  THEN [session EXCEPT !.pos = files'[session.key].reader.i]
                  ELSE session
    /\ UNCHANGED <<outside, callers, pending>>

\* the holder's Seek on its handle
HolderSeek(offset, whence) ==
    /\ session.open
    /\ Seek(session.key, offset, whence)
    /\ session' = IF files'[session.key].reader.open
                  THEN [session EXCEPT !.pos = files'[session.key].reader.i]
                  ELSE session
    /\ UNCHANGED <<outside, callers, pending>>

\* the holder's Close of its handle
HolderClose ==
    /\ session.open
    /\ Close(session.key)
    /\ session' = NoSession
    /\ UNCHANGED <<outside, callers, pending>>

\* a step of a caller's ReadFile: fs.Open(path)
ReadFileOpen(c, name) ==
    /\ callers[c].pc = "idle"
    /\ LET o == FsOpen(files, name)
       IN /\ files' = o.files
          /\ callers' = [callers EXCEPT ![c] =
                            IF o.ok THEN [pc |-> "reading", f |-> o.handle,
                                          acc |-> <<>>, err |-> NoErr]
                            ELSE [pc |-> "done", f |-> <<>>, acc |-> <<>>, err |-> o.err]]
    /\ UNCHANGED <<held, last, prev, orig, roundTrip, dirSeen, goSeen, outside, session,
                   pending>>

\* a step of a caller's ReadFile: one f.Read of ioutil.ReadAll.  A Read
\* through a nil reader panics and leaves the deferred Close to run
ReadFileRead(c) ==
    /\ callers[c].pc = "reading"
    /\ LET f == callers[c].f
       IN IF ~ files[f].reader.open
          THEN /\ callers' = [callers EXCEPT ![c].pc = "closing", ![c].err = Panic]
               /\ UNCHANGED files
          ELSE LET res == ReaderRead(files[f].reader, ReadAllRoom(Len(callers[c].acc)))
               IN /\ files' = [files EXCEPT ![f].reader = res.r]
                  /\ callers' = [callers EXCEPT ![c] =
                                    IF res.err = EOF THEN [@ EXCEPT !.pc = "closing"]
                                    ELSE [@ EXCEPT !.acc = @ \o res.data]]
    /\ UNCHANGED <<held, last, prev, orig, roundTrip, dirSeen, goSeen, outside, session,
                   pending>>

\* a step of a caller's ReadFile: the deferred f.Close() and the return
ReadFileClose(c) ==
    /\ callers[c].pc = "closing"
    /\ files' = [files EXCEPT ![callers[c].f] = CloseFile(@)]
    /\ callers' = [callers EXCEPT ![c].pc = "done"]
    /\ UNCHANGED <<held, last, prev, orig, roundTrip, dirSeen, goSeen, outside, session,
                   pending>>

\* FileSystem.GoString
GoString ==
    \E text \in {GoStringRecords(files, order) : order \in Perms(DOMAIN files)} :
          /\ last' = [Call("GoString") EXCEPT !.text = text]
          /\ goSeen' = [texts |-> goSeen.texts \cup {text},
                         calls |-> Min(goSeen.calls + 1, 2)]
          /\ prev' = Persist(files)
          /\ roundTrip' = KeepTrip
          /\ dirSeen' = NoDirSeen
          /\ UNCHANGED <<files, held, orig>>

\* the calls on the table: lookups, listings, the two passes and the
\* serializer; handles are opened, listed and closed, their cursors stay at 0
Next ==
    /\ \/ \E name \in Names : Open(name)
       \/ \E h \in DOMAIN files : Close(h)
       \/ \E h \in DOMAIN files : StatFile(h)
       \/ \E h \in DOMAIN files, count \in Counts : Readdir(h, count)
       \/ \E name \in Names : Stat(name)
       \/ \E name \in Names : ReadFile(name)
       \/ \E name \in Names : ReadDir(name)
       \/ \E algo \in Algos : Compress(algo)
       \/ Decompress
       \/ GoString
    /\ UNCHANGED <<outside, clients>>

Spec == Init /\ [][Next]_vars

\* the calls that read: lookups and listings on the table, and every method
\* of the handles, cursors included; no pass changes the table
NextIO ==
    /\ \/ \E name \in Names : Open(name)
       \/ \E h \in DOMAIN files, n \in 1..MaxReadBuf : Read(h, n)
       \/ \E h \in DOMAIN files, a \in SeekArgs : Seek(h, a[1], a[2])
       \/ \E h \in DOMAIN files : Close(h)
       \/ \E h \in DOMAIN files : StatFile(h)
       \/ \E h \in DOMAIN files, count \in Counts : Readdir(h, count)
       \/ \E name \in Names : Stat(name)
       \/ \E name \in Names : ReadFile(name)
       \/ \E name \in Names : ReadDir(name)
    /\ UNCHANGED <<outside, clients>>

SpecIO == Init /\ [][NextIO]_vars

\* tables whose file a.txt holds, as its raw bytes, a gzip stream
InitPass ==
    /\ \E keys \in KeySets, payload \in Contents :
          files = MakeTable(keys, GzipEncode(payload))
    /\ held = {}
    /\ last = Call("init")
    /\ prev = Persist(files)
    /\ orig = Persist(files)
    /\ roundTrip = Idle
    /\ dirSeen = NoDirSeen
    /\ goSeen = NoGoSeen
    /\ Debug = FALSE
    /\ host = [p \in HostPaths |-> NoHostFile]
    /\ session = NoSession
    /\ callers = [c \in Callers |-> IdleCaller]
    /\ copying = NoCopy
    /\ passing = NoPass

\* the two passes, with lookups between them
NextPass ==
    /\ \/ \E name \in Names : Open(name)
       \/ \E h \in DOMAIN files : Close(h)
       \/ \E name \in Names : ReadFile(name)
       \/ \E algo \in Algos : Compress(algo)
       \/ Decompress
    /\ UNCHANGED <<outside, clients>>

SpecPass == InitPass /\ [][NextPass]_vars

\* the table with the longest payload and two files in its directory
InitAll ==
    /\ Init
    /\ DOMAIN files = {PathA, PathDir, PathB, PathC}
    /\ Len(files[PathA].Content) = MaxContentLen

\* a table with two entries that Compress encodes, a.txt and b.txt
InitDebug ==
    /\ Init
    /\ DOMAIN files = {PathA, PathDir, PathB, PathE}
    /\ Len(files[PathA].Content) = MaxContentLen

\* lookups and passes with the Debug switch off and on; a copy of a.txt may
\* lie on the host at the path of its key
NextDebug ==
    \/ \E b \in BOOLEAN : SetDebug(b)
    \/ /\ ~ Debug /\ Quiet
       /\ \/ Open(PathA)
          \/ Decompress
       /\ UNCHANGED <<outside, clients>>
    \/ /\ Quiet
       /\ \/ Close(PathA)
          \/ Compress(Gzip)
       /\ UNCHANGED <<outside, clients>>
    \/ \E hostPath \in HostPaths : CopyFile(PathA, hostPath)
    \/ CopyFileOpenFile(FALSE)
    \/ CopyFileRead
    \/ \E fail \in BOOLEAN :
          CopyFileWrite(fail, IF fail THEN Len(CutStream) ELSE Len(copying.buf))
    \/ CopyFileStat(FALSE)
    \/ \E name \in {PathA, PathMissing} : OpenDebug(name)
    \/ \E name \in {PathA, PathMissing} : StatDebug(name)
    \/ \E name \in {PathA, PathMissing} : ReadFileDebug(name)
    \/ \E name \in {PathA, PathMissing} : ReadDirDebug(name)
    \/ DecompressDebug
    \/ DecompressDebugNext

SpecDebug == InitDebug /\ [][NextDebug]_vars

\* one holder opens a.txt and uses its handle while other calls are made on
\* the table, Open of the same path and the methods of its handle included
NextSession ==
    \/ \E name \in {PathA, DotSlash \o PathA} : HolderOpen(name)
    \/ \E n \in 1..MaxReadBuf : HolderRead(n)
    \/ \E a \in {<<0, 0>>, <<1, 0>>} : HolderSeek(a[1], a[2])
    \/ HolderClose
    \/ /\ \/ \E name \in {PathA, PathMissing} : Open(name)
          \/ \E h \in DOMAIN files : Read(h, MaxReadBuf)
          \/ \E h \in DOMAIN files : Seek(h, 1, 0)
          \/ \E h \in DOMAIN files : Close(h)
          \/ Stat(PathA)
          \/ ReadFile(PathA)
          \/ ReadDir(PathA)
          \/ Compress(Gzip)
          \/ Decompress
       /\ UNCHANGED <<outside, clients>>

SpecSession == InitAll /\ [][NextSession]_vars

\* two callers run ReadFile of a.txt side by side; each call of a method
\* is one step, no lock is taken (FileSystem's RWMutex is never acquired)
NextConcurrent ==
    \E c \in Callers :
       \/ \E name \in {PathA, DotSlash \o PathA} : ReadFileOpen(c, name)
       \/ ReadFileRead(c)
       \/ ReadFileClose(c)

SpecConcurrent == Init /\ [][NextConcurrent]_vars

\* every call of the package on one file and one directory of the table,
\* copies to the host included
NextAll ==
    \/ /\ Quiet
       /\ \/ \E name \in {DotSlash \o PathA, PathDir} : Open(name)
          \/ \E h \in DOMAIN files : Read(h, MaxReadBuf)
          \/ \E h \in DOMAIN files : Seek(h, 1, 0)
          \/ \E h \in DOMAIN files : Close(h)
          \/ \E h \in DOMAIN files : Readdir(h, -1)
          \/ Stat(PathA)
          \/ ReadFile(PathA)
          \/ ReadDir(PathDir)
          \/ Compress(Gzip)
          \/ Decompress
       /\ UNCHANGED <<outside, clients>>
    \/ \E name \in {PathA, PathMissing} : CopyFile(name, HostOut)
    \/ \E fail \in BOOLEAN : CopyFileOpenFile(fail)
    \/ CopyFileRead
    \/ \E fail \in BOOLEAN : CopyFileWrite(fail, IF fail THEN 1 ELSE Len(copying.buf))
    \/ \E fail \in BOOLEAN : CopyFileStat(fail)

SpecAll == InitAll /\ [][NextAll]_vars

-----------------------------------------------------------------------------
(* Properties.                                                             *)

Keys == DOMAIN files

\* the parent of a normalized table key: "." for a key without separator,
\* else the key up to its last separator
ParentOf(p) == IF LastSep(p) = 0 THEN DotStr ELSE SubSeq(p, 1, LastSep(p) - 1)

\* name ends in one of .jpg .jpeg .gz .png .gif .zip
EndsInExcluded(name) ==
    \/ HasSuffix(name, <<46, 106, 112, 103>>)
    \/ HasSuffix(name, <<46, 106, 112, 101, 103>>)
    \/ HasSuffix(name, <<46, 103, 122>>)
    \/ HasSuffix(name, <<46, 112, 110, 103>>)
    \/ HasSuffix(name, <<46, 103, 105, 102>>)
    \/ HasSuffix(name, <<46, 122, 105, 112>>)

\* the key a caller's path resolves to: the path without one leading "./"
Resolved(p) ==
    IF Len(p) >= 2 /\ p[1] = 46 /\ p[2] = 47 THEN Tail(Tail(p)) ELSE p

\* the keys a listing through the handle of key p reports: those whose parent
\* is p for a directory-typed p, and those whose parent is the parent of p
\* otherwise
MembersOf(p) ==
    LET root == IF files[p].Mode.ModeDir THEN p ELSE ParentOf(p)
    IN {k \in Keys : ParentOf(k) = root}

\* the FileInfo of the entry of key k as the table stands
InfoOf(k) ==
    [name |-> files[k].Filename, mode |-> files[k].Mode,
     size |-> Len(files[k].Content), modtime |-> files[k].ModTime]

\* C1: after a Decompress() that returns no error every entry has
\* Compression = None and holds its raw bytes.
C1_DecompressLeavesAllNone ==
    (last.op = "Decompress" /\ last.err = NoErr) =>
        \A k \in Keys :
            /\ files[k].Compression = None
            /\ prev[k].Compression = Gzip => files[k].Compression = None
            /\ files[k].Content = orig[k].Content

\* C2: in every state reached from an all-None table by Compress and
\* Decompress calls, an entry tagged Gzip holds exactly one gzip encoding of
\* its original raw bytes and an entry tagged None holds exactly those bytes.
C2_TagMatchesContent ==
    \A k \in Keys :
        /\ files[k].Compression = Gzip => files[k].Content = GzipEncode(orig[k].Content)
        /\ files[k].Compression = None => files[k].Content = orig[k].Content

\* C3: Compress(Gzip) on an all-None table followed by Decompress() leaves
\* the Content of every entry equal to its Content before the Compress call.
C3_RoundTrip ==
    roundTrip.stage = "done" =>
        /\ last.op = "Decompress" /\ last.err = NoErr
        /\ \A k \in Keys : files[k].Content = roundTrip.pre[k]

\* C3 witness: a Decompress has just decoded an entry that Compress(Gzip) had
\* encoded from a non-empty payload, next to an entry neither pass touched.
C3_Witness ==
    /\ roundTrip.stage = "done"
    /\ files[PathA].Content # <<>>
    /\ prev[PathA].Content = GzipEncode(files[PathA].Content)
    /\ prev[PathB].Content = files[PathB].Content

\* C4: ReadFile of a key whose entry has Compression = None returns the
\* entry's full Content and no error, whatever calls came before it.
C4_ReadFileReturnsContent ==
    (last.op = "ReadFile" /\ Resolved(last.name) \in Keys
        /\ files[Resolved(last.name)].Compression = None) =>
        /\ last.ok
        /\ last.err = NoErr
        /\ last.data = files[Resolved(last.name)].Content

\* C4 witness: ReadFile returned a full payload for an entry a caller had
\* opened before.
C4_Witness ==
    /\ last.op = "ReadFile" /\ last.ok
    /\ last.handle \in held
    /\ files[last.handle].Compression = None
    /\ Len(last.data) = MaxContentLen

\* C5 as claimed: Open, Stat and ReadFile of a path that resolves to no key
\* return no result and the error open <the path as the caller gave it>.
C5_ErrorNamesCallerPath ==
    (last.op \in {"Open", "Stat", "ReadFile"} /\ Resolved(last.name) \notin Keys) =>
        /\ ~ last.ok
        /\ last.handle = <<>> /\ last.data = <<>> /\ last.infos = <<>>
        /\ last.err = PathError("open", last.name)

\* C5 amended: the error names the operation open and the path after one
\* leading "./" is stripped; that is the caller's path when it has no such
\* prefix.
C5_ErrorNamesNormalizedPath ==
    (last.op \in {"Open", "Stat", "ReadFile"} /\ Resolved(last.name) \notin Keys) =>
        /\ ~ last.ok
        /\ last.handle = <<>> /\ last.data = <<>> /\ last.infos = <<>>
        /\ last.err.kind = "File does not exist in binclude map"
        /\ last.err.op = "open"
        /\ last.err.path = Resolved(last.name)
        /\ ~ HasPrefix(last.name, DotSlash) => last.err.path = last.name

\* C5 witness: Stat of "./missing.txt" failed with an error naming
\* "missing.txt".
C5_Witness ==
    /\ last.op = "Stat"
    /\ last.name = DotSlash \o PathMissing
    /\ last.err.path = PathMissing

\* C6: Compress(Gzip) leaves directories and entries with an excluded
\* extension untouched and untagged, and gzip-encodes and tags every other
\* entry.
C6_CompressFrame ==
    (last.op = "Compress" /\ last.algo = Gzip) =>
        \A k \in Keys :
            IF files[k].Mode.ModeDir \/ EndsInExcluded(files[k].Filename)
            THEN /\ files[k].Content = prev[k].Content
                 /\ files[k].Compression = prev[k].Compression
                 /\ files[k].Compression = None
            ELSE /\ files[k].Content = GzipEncode(prev[k].Content)
                 /\ files[k].Compression = Gzip

\* C6 witness: a Compress(Gzip) has passed over a directory and a .gz file
\* and encoded a third entry.
C6_Witness ==
    /\ last.op = "Compress" /\ last.algo = Gzip
    /\ \E k \in Keys : files[k].Mode.ModeDir
    /\ \E k \in Keys : ~ files[k].Mode.ModeDir /\ EndsInExcluded(files[k].Filename)
    /\ \E k \in Keys : files[k].Content # prev[k].Content

\* C7: the list ReadDir returns is in ascending order of Name and holds the
\* entries of the directory as the table stands, and the calls of a run of
\* ReadDir(p) calls on an unchanged table return one and the same list.
C7_ReadDirSorted ==
    /\ (last.op = "ReadDir" /\ last.ok) =>
          /\ \A i, j \in 1..Len(last.infos) :
                i < j => ~ StrLess(last.infos[j].name, last.infos[i].name)
          /\ Len(last.infos) = Cardinality(MembersOf(Resolved(last.name)))
          /\ \A k \in MembersOf(Resolved(last.name)) :
                \E i \in 1..Len(last.infos) : last.infos[i] = InfoOf(k)
    /\ Cardinality(dirSeen.lists) <= 1

\* C7 witness: a second ReadDir of the same path on an unchanged table
\* returned a list of two or more entries.
C7_Witness ==
    /\ last.op = "ReadDir" /\ last.ok
    /\ dirSeen.calls = 2
    /\ Len(last.infos) >= 2

\* C8: Readdir on a handle returns exactly one FileInfo, built from the
\* entry's Filename, Mode, ModTime and current Content length, for each entry
\* whose parent is the handle's path (directory handle) or the parent of the
\* handle's path (other handles), and nothing else.
C8_ReaddirMembership ==
    last.op = "Readdir" =>
        LET members == MembersOf(last.handle)
        IN /\ Len(last.infos) = Cardinality(members)
           /\ \A k \in members :
                 Cardinality({i \in 1..Len(last.infos) : last.infos[i] = InfoOf(k)}) = 1
           /\ \A i \in 1..Len(last.infos) : \E k \in members : last.infos[i] = InfoOf(k)

\* C8 witness: Readdir on the handle of the directory "dir" listed an entry
\* while the table holds a path nested deeper below "dir".
C8_Witness ==
    /\ last.op = "Readdir"
    /\ last.handle = PathDir
    /\ Len(last.infos) >= 1
    /\ \E k \in Keys : HasPrefix(k, PathDir \o SlashStr) /\ ParentOf(k) # PathDir

\* C9: Compress(None) changes no entry and returns no error; Decompress()
\* changes no entry that is already None, so on an all-None table it changes
\* nothing and returns no error.
C9_NoOps ==
    /\ (last.op = "Compress" /\ last.algo = None) =>
          Persist(files) = prev /\ last.err = NoErr
    /\ last.op = "Decompress" =>
          /\ \A k \in Keys : prev[k].Compression = None => Persist(files)[k] = prev[k]
          /\ (\A k \in Keys : prev[k].Compression = None) =>
                Persist(files) = prev /\ last.err = NoErr

\* C9 witness: a Compress(None) has run on a table that holds a compressed
\* entry.
C9_Witness ==
    /\ last.op = "Compress" /\ last.algo = None
    /\ \E k \in Keys : files[k].Compression = Gzip

\* C10: GoString emits one record per key, in strictly ascending order of
\* path, each rendering its entry, so all GoString calls between two changes
\* of the table emit one and the same text whatever order the map is ranged in.
C10_GoStringSorted ==
    /\ last.op = "GoString" =>
          /\ Len(last.text) = Cardinality(Keys)
          /\ {last.text[i].path : i \in 1..Len(last.text)} = Keys
          /\ \A i, j \in 1..Len(last.text) :
                i < j => StrLess(last.text[i].path, last.text[j].path)
          /\ \A i \in 1..Len(last.text) :
                LET f == files[last.text[i].path]
                IN last.text[i].file =
                      [Filename |-> f.Filename, Mode |-> f.Mode,
                       ModTime |-> <<f.ModTime, f.ModTime * 1000000000>>,
                       Compression |-> IF f.Compression = Gzip THEN "binclude.Gzip"
                                       ELSE "binclude.None",
                       Content |-> f.Content]
    /\ Cardinality(goSeen.texts) <= 1

\* C10 witness: a second GoString of an unchanged table has serialized a
\* compressed entry.
C10_Witness ==
    /\ last.op = "GoString"
    /\ goSeen.calls = 2
    /\ \E i \in 1..Len(last.text) : last.text[i].file.Compression = "binclude.Gzip"

\* C12: Close detaches the cursor of its handle and returns no error, on a
\* bound and on a detached handle alike; Close of a handle that is already
\* detached changes nothing at all, so any number of Close calls leave the
\* handle and the table as a single Close does.
C12_CloseIdempotent ==
    [][last'.op = "Close" =>
          LET h == last'.handle
          IN /\ last'.err = NoErr
             /\ ~ files'[h].reader.open
             /\ files' = [files EXCEPT ![h].reader = NilReader]
             /\ Persist(files') = Persist(files)
             /\ ~ files[h].reader.open => files' = files]_vars

\* C12 witness: Close has run on a handle whose cursor was detached already.
C12_Witness ==
    /\ last.op = "Close"
    /\ ~ last.bound
    /\ ~ files[last.handle].reader.open
    /\ files[last.handle].fs

\* C19: whatever count it is given (negative, zero, positive and smaller than
\* the number of members), Readdir returns one FileInfo for every member of
\* the listed directory and a nil error, and a Readdir that follows a Readdir
\* of the same handle returns that same full set again.
C19_ReaddirIgnoresCount ==
    /\ [](last.op = "Readdir" =>
            /\ last.err = NoErr
            /\ Len(last.infos) = Cardinality(MembersOf(last.handle))
            /\ {last.infos[i] : i \in 1..Len(last.infos)} =
                  {InfoOf(k) : k \in MembersOf(last.handle)})
    /\ [][(last.op = "Readdir" /\ last'.op = "Readdir" /\ last'.handle = last.handle) =>
             /\ Len(last'.infos) = Len(last.infos)
             /\ {last'.infos[i] : i \in 1..Len(last'.infos)} =
                   {last.infos[i] : i \in 1..Len(last.infos)}]_vars

\* C19 witness: Readdir was called with a positive count smaller than the
\* number of members and has returned more entries than the count.
C19_Witness ==
    /\ last.op = "Readdir"
    /\ last.n = 1
    /\ Cardinality(MembersOf(last.handle)) = 2
    /\ Len(last.infos) = 2

\* C18: Compress(Gzip) leaves the Content and the Compression of an entry
\* that is already tagged Gzip as they were, so a second Compress(Gzip) adds
\* no second gzip layer for Decompress to peel.
C18_CompressSkipsCompressed ==
    (last.op = "Compress" /\ last.algo = Gzip) =>
        \A k \in Keys :
            prev[k].Compression = Gzip =>
                /\ files[k].Content = prev[k].Content
                /\ files[k].Compression = prev[k].Compression

\* C11: in every reachable state the table has the keys it started with, and
\* every entry the Filename, Mode and ModTime it started with, whatever
\* calls were made.
C11_FixedExtent ==
    /\ DOMAIN files = DOMAIN orig
    /\ \A k \in DOMAIN orig :
          /\ files[k].Filename = orig[k].Filename
          /\ files[k].Mode = orig[k].Mode
          /\ files[k].ModTime = orig[k].ModTime

\* C11 witness: a CopyFile has succeeded on a table whose contents a
\* Compress(Gzip) has replaced.
C11_Witness ==
    /\ last.op = "CopyFile" /\ last.err = NoErr
    /\ \E k \in Keys :
          files[k].Compression = Gzip /\ files[k].Content # orig[k].Content

\* C13: a CopyFile whose embedded path is not in the table returns the
\* not-found error of Open and leaves the host filesystem as it was; a
\* CopyFile that returns no error leaves in the host file exactly the
\* Content of the entry, and the Content and Compression of every entry as
\* they were.
C13_CopyFile ==
    [][(last'.op = "CopyFile" /\ copying'.pc = "idle" /\ ~ Debug) =>
          LET key == Resolved(last'.name)
              before == IF copying.pc = "idle" THEN [table |-> files, host |-> host]
                        ELSE copying.before
          IN /\ key \notin Keys =>
                   /\ last'.err = PathError("open", key)
                   /\ host' = before.host
             /\ last'.err = NoErr =>
                   /\ key \in Keys
                   /\ host'[last'.hostPath].exists
                   /\ host'[last'.hostPath].data = before.table[key].Content
                   /\ \A p \in HostPaths \ {last'.hostPath} : host'[p] = before.host[p]
                   /\ Persist(files') = Persist(before.table)]_vars

\* C13 witness: a CopyFile of a path that is not in the table has returned
\* while the host holds, from a CopyFile before it, a file with the compressed
\* Content of an entry.
C13_Witness ==
    /\ last.op = "CopyFile"
    /\ Resolved(last.name) \notin Keys
    /\ last.err = PathError("open", PathMissing)
    /\ host[HostOut].exists
    /\ files[PathA].Compression = Gzip
    /\ host[HostOut].data = files[PathA].Content

\* the gzip stream b cannot be decoded
Corrupt(b) == ~ (GzipHeaderOK(b) /\ GzipBodyOK(b))

\* C14: a Decompress returns an error exactly when an entry tagged Gzip
\* holds Content that cannot be decoded.  It is the first such entry the
\* range meets that fails: the error opens with "Gzip err" when its stream
\* cannot be opened and with "Reader err" when it cannot be read, the
\* failing entry keeps its Content and Compression, so does every entry the
\* pass had not reached, and every entry reached before the failing one
\* holds its decoded Content.
C14_DecompressFailsPartially ==
    last.op = "Decompress" =>
        LET o == last.order
            tagged == {j \in 1..Len(o) : prev[o[j]].Compression = Gzip}
            corrupt == {j \in tagged : Corrupt(prev[o[j]].Content)}
        IN /\ corrupt # {} =>
                 LET i == CHOOSE j \in corrupt : \A k \in corrupt : j <= k
                 IN /\ last.err = IF GzipHeaderOK(prev[o[i]].Content) THEN ReaderErr
                                   ELSE GzipErr
                    /\ \A j \in 1..(i - 1) :
                          /\ files[o[j]].Content = GzipBody(prev[o[j]].Content)
                          /\ files[o[j]].Compression = prev[o[j]].Compression
                    /\ \A j \in i..Len(o) : Persist(files)[o[j]] = prev[o[j]]
           /\ last.err # NoErr => corrupt # {}
           /\ \A k \in Keys \ {o[j] : j \in 1..Len(o)} : Persist(files)[k] = prev[k]

\* C14 witness: a Decompress has failed with "Reader err" on its second
\* entry, a gzip header with nothing behind it, after it had decoded the
\* first.
C14_Witness ==
    /\ last.op = "Decompress" /\ last.err = ReaderErr
    /\ Len(last.order) = 2
    /\ files[last.order[1]].Content # prev[last.order[1]].Content
    /\ files[last.order[2]].Content = prev[last.order[2]].Content

\* C17: an Open of a path that is a key of the table returns a handle of
\* that entry and no error, with Debug off and on, and every Open that
\* Decompress makes returns a handle.
C17_OpenOfKeyCannotFail ==
    /\ (last.op = "Open" /\ Resolved(last.name) \in Keys) =>
          /\ last.ok
          /\ last.err = NoErr
          /\ last.handle = Resolved(last.name)
    /\ last.op = "Decompress" => last.ok

\* C15: as long as its holder has not closed it, a handle returned by Open
\* has a bound cursor at the position its holder left it at, whatever calls
\* others make on the table or through handles of their own Open of the path.
C15_SessionCursorKept ==
    session.open =>
        /\ files[session.key].reader.open
        /\ files[session.key].reader.i = session.pos

\* C16: under every interleaving of the steps of two ReadFile calls of one
\* path, a call that has returned has met no error and no detached cursor
\* and returns exactly the Content of the entry.
C16_ConcurrentReadFile ==
    \A c \in Callers :
        callers[c].pc = "done" =>
            /\ callers[c].err = NoErr
            /\ callers[c].acc = files[callers[c].f].Content

====
